---- MODULE Spec2Model ----
(***************************************************************************)
(* Model of hatchet's rich-text core: the markup parser of                 *)
(* src/helpers/html.ts (parseHtmlContent, findMatchingClose,               *)
(* decodeHtmlEntities) and the attachment extractor of                     *)
(* src/helpers/image.ts (extractImageUrls); of its theme (palette          *)
(* detection, colour arithmetic, the Theme catalog); and of the board      *)
(* paths kept by the browser extension.                                    *)
(*                                                                         *)
(* A JavaScript string is a sequence of one-character strings, so that the *)
(* regular expressions and the slicing of the source are computed on       *)
(* characters.  Positions are 0-based offsets, as in the source.           *)
(***************************************************************************)
EXTENDS Integers, Sequences, FiniteSets, TLC

VARIABLES
    fam,        \* which family of inputs the document was drawn from
    doc,        \* the document as a sequence of tokens (the input, before rendering to text)
    html,       \* the markup string handed to the program
    state0,     \* the StyleState handed to the outermost parseHtmlContent call
    pc,         \* position of the program
    stack,      \* activation records of parseHtmlContent, innermost last
    ctxs,       \* heap of ListContext objects (they are passed by reference)
    fmc,        \* locals of the running findMatchingClose call
    attUrl,     \* local `url` of the last action-text-attachment case, as an option
    result,     \* nodes returned by the outermost parseHtmlContent call
    images,     \* value returned by extractImageUrls(html)
    decoded,    \* value returned by decodeHtmlEntities(html)
    palette,            \* theme: the module variable `palette`, 16 slots
    defaultForeground,  \* theme: the module variable `defaultForeground`
    defaultBackground,  \* theme: the module variable `defaultBackground`
    awaiting,   \* detectPalette calls suspended at `await renderer.getPalette(...)`
    settled,    \* how the promises of the finished detectPalette calls settled, in order
    seen,       \* what the last read of the Theme catalog returned, as an option
    cin,        \* arguments of one call of a colour function
    cout,       \* what that call returned, as an option
    boardPaths, \* extension: chrome.storage.local's boardPaths, as an option
    handlers,   \* extension: the running asynchronous handlers and their locals
    locationHref,   \* extension: window.location.href after a navigation, as an option
    cardDetailsCache,   \* fizzy.ts: the Map `cardDetailsCache`
    prDetailsCache,     \* github.ts: the Map `prDetailsCache`
    returned    \* the last call of a cache function: what it did and returned, as an option

parseVars == <<fam, doc, html, state0, pc, stack, ctxs, fmc, attUrl, result, images, decoded>>

themeVars == <<palette, defaultForeground, defaultBackground, awaiting, settled, seen>>

colorVars == <<cin, cout>>

extVars == <<boardPaths, handlers, locationHref>>

cacheVars == <<cardDetailsCache, prDetailsCache, returned>>

vars == <<parseVars, themeVars, colorVars, extVars, cacheVars>>

(***************************************************************************)
(* Characters and strings                                                  *)
(***************************************************************************)

LowerLetters ==
    {"a","b","c","d","e","f","g","h","i","j","k","l","m",
     "n","o","p","q","r","s","t","u","v","w","x","y","z"}

\* String.prototype.toLowerCase on one character
LowerMap ==
    [A |-> "a", B |-> "b", C |-> "c", D |-> "d", E |-> "e", F |-> "f", G |-> "g",
     H |-> "h", I |-> "i", J |-> "j", K |-> "k", L |-> "l", M |-> "m", N |-> "n",
     O |-> "o", P |-> "p", Q |-> "q", R |-> "r", S |-> "s", T |-> "t", U |-> "u",
     V |-> "v", W |-> "w", X |-> "x", Y |-> "y", Z |-> "z"]

Digits == {"0","1","2","3","4","5","6","7","8","9"}

\* the characters of the regular-expression class [\w-]
WordChars == LowerLetters \cup DOMAIN LowerMap \cup Digits \cup {"_", "-"}

\* the characters of the regular-expression class \s that the inputs use
Whitespace == {" ", "\n", "\t"}

\* the characters of the regular-expression class ["']
Quotes == {"\"", "'"}

LowerChar(c) == IF c \in DOMAIN LowerMap THEN LowerMap[c] ELSE c

toLowerCase(s) == [i \in 1..Len(s) |-> LowerChar(s[i])]

\* s.slice(a, b) and s.slice(a), for 0 <= a <= b <= s.length
slice(s, a, b) == SubSeq(s, a + 1, b)

sliceFrom(s, a) == SubSeq(s, a + 1, Len(s))

\* p occurs in s at offset i
StartsWithAt(s, p, i) ==
    /\ i + Len(p) <= Len(s)
    /\ \A k \in 1..Len(p) : s[i + k] = p[k]

\* the same, ignoring letter case (the i flag of a regular expression)
StartsWithAtCI(s, p, i) ==
    /\ i + Len(p) <= Len(s)
    /\ \A k \in 1..Len(p) : LowerChar(s[i + k]) = LowerChar(p[k])

startsWith(s, p) == StartsWithAt(s, p, 0)

\* the least number of a non-empty set of numbers
Least(S) == CHOOSE i \in S : \A j \in S : i <= j

\* s.indexOf(p, from): the least offset >= from at which p occurs, or -1
indexOf(s, p, from) ==
    LET hits == {i \in from..(Len(s) - Len(p)) : StartsWithAt(s, p, i)}
    IN  IF hits = {} THEN -1 ELSE Least(hits)

includes(s, p) == indexOf(s, p, 0) # -1

\* the least offset i >= from with s[i] in the class cls, or -1
FindIn(s, cls, from) ==
    LET hits == {i \in from..(Len(s) - 1) : s[i + 1] \in cls}
    IN  IF hits = {} THEN -1 ELSE Least(hits)

\* the least offset i >= from with s[i] not in the class cls (s.length when none):
\* where a greedy cls* that starts at `from` ends
SkipWhile(s, cls, from) ==
    LET stops == {i \in from..(Len(s) - 1) : s[i + 1] \notin cls}
    IN  IF stops = {} THEN Len(s) ELSE Least(stops)

RECURSIVE ReplaceFrom(_, _, _, _)
ReplaceFrom(s, p, r, i) ==
    IF i >= Len(s) THEN <<>>
    ELSE IF StartsWithAt(s, p, i) THEN r \o ReplaceFrom(s, p, r, i + Len(p))
    ELSE <<s[i + 1]>> \o ReplaceFrom(s, p, r, i + 1)

\* s.replace(/p/g, r) for a literal, non-empty pattern p: every occurrence, left
\* to right, without overlap, in one pass
replaceAll(s, p, r) == ReplaceFrom(s, p, r, 0)

(***************************************************************************)
(* html.ts: decodeHtmlEntities                                             *)
(***************************************************************************)

E_lt   == <<"&","l","t",";">>
E_gt   == <<"&","g","t",";">>
E_amp  == <<"&","a","m","p",";">>
E_quot == <<"&","q","u","o","t",";">>
E_apos == <<"&","#","3","9",";">>
E_nbsp == <<"&","n","b","s","p",";">>

\* the six replace calls of the source, in the order of the source
decodeHtmlEntities(text) ==
    LET t1 == replaceAll(text, E_lt, <<"<">>)
        t2 == replaceAll(t1, E_gt, <<">">>)
        t3 == replaceAll(t2, E_amp, <<"&">>)
        t4 == replaceAll(t3, E_quot, <<"\"">>)
        t5 == replaceAll(t4, E_apos, <<"'">>)
    IN  replaceAll(t5, E_nbsp, <<" ">>)

(***************************************************************************)
(* Options (a value or null/undefined) and numbers as text                 *)
(***************************************************************************)

None == <<>>

Some(v) == <<v>>

DigitChars == <<"0","1","2","3","4","5","6","7","8","9">>

RECURSIVE NumberToString(_)
\* `${n}` for a number n >= 0
NumberToString(n) ==
    IF n < 10 THEN <<DigitChars[n + 1]>>
    ELSE NumberToString(n \div 10) \o <<DigitChars[(n % 10) + 1]>>

\* the least offset i >= from with s[i] in the class stop (s.length when none):
\* where a greedy [^stop]* that starts at `from` ends
SkipUntil(s, stop, from) ==
    LET stops == {i \in from..(Len(s) - 1) : s[i + 1] \in stop}
    IN  IF stops = {} THEN Len(s) ELSE Least(stops)

(***************************************************************************)
(* html.ts: tag names, StyleState, getAttributes, the regular expressions  *)
(***************************************************************************)

n_b          == <<"b">>
n_strong     == <<"s","t","r","o","n","g">>
n_i          == <<"i">>
n_em         == <<"e","m">>
n_s          == <<"s">>
n_strike     == <<"s","t","r","i","k","e">>
n_del        == <<"d","e","l">>
n_code       == <<"c","o","d","e">>
n_h1         == <<"h","1">>
n_h2         == <<"h","2">>
n_h3         == <<"h","3">>
n_p          == <<"p">>
n_li         == <<"l","i">>
n_blockquote == <<"b","l","o","c","k","q","u","o","t","e">>
n_a          == <<"a">>
n_pre        == <<"p","r","e">>
n_ul         == <<"u","l">>
n_ol         == <<"o","l">>
n_div        == <<"d","i","v">>
n_span       == <<"s","p","a","n">>
n_figure     == <<"f","i","g","u","r","e">>
n_figcaption == <<"f","i","g","c","a","p","t","i","o","n">>
n_attachment == <<"a","c","t","i","o","n","-","t","e","x","t","-",
                  "a","t","t","a","c","h","m","e","n","t">>
n_img        == <<"i","m","g">>
n_br         == <<"b","r">>
n_hr         == <<"h","r">>

\* the string literals of the source that are not one character long
NL          == <<"\n">>
HrText      == <<"\n","-","-","-","\n">>      \* "\n" + three box-drawing dashes + "\n"
BulletText  == <<"*"," ">>                    \* the bullet glyph and a space
QuoteText   == <<"|"," ">>                    \* the box-drawing bar and a space
CodeFg      == "#98c379"
Origin      == <<"h","t","t","p","s",":","/","/","a","p","p",".",
                 "f","i","z","z","y",".","d","o">>
s_attachment == <<"a","t","t","a","c","h","m","e","n","t">>
s_image      == <<"i","m","a","g","e">>
s_imageSlash == <<"i","m","a","g","e","/">>
s_videoSlash == <<"v","i","d","e","o","/">>
VideoIcon   == <<"V"," ">>                    \* nf-fa-video and a space
ClipIcon    == <<"C"," ">>                    \* nf-fa-paperclip and a space

initialState == [bold |-> FALSE, italic |-> FALSE, strikethrough |-> FALSE, code |-> FALSE]

\* the bit mask of the source as the set of its bits
getAttributes(state) ==
    (IF state.bold THEN {"BOLD"} ELSE {})
        \cup (IF state.italic THEN {"ITALIC"} ELSE {})
        \cup (IF state.strikethrough THEN {"STRIKETHROUGH"} ELSE {})

\* TextNodeRenderable.fromString(text, { fg, attributes })
TextNode(text, fg, state) ==
    [text |-> text, fg |-> fg, attributes |-> Some(getAttributes(state))]

\* TextNodeRenderable.fromString(text, { fg })
PlainNode(text, fg) == [text |-> text, fg |-> fg, attributes |-> None]

\* attrs.match(/key["']([^"']+)["']/) from offset i on: the first capture group of
\* the leftmost match, or null.  key ends with "=".
AttrSearch(s, key, i) ==
    LET ValueEnd(j) == SkipUntil(s, Quotes, j + Len(key) + 1)
        MatchesAt(j) == LET q == j + Len(key)
                        IN  /\ StartsWithAt(s, key, j)
                            /\ q < Len(s)
                            /\ s[q + 1] \in Quotes
                            /\ ValueEnd(j) > q + 1
                            /\ ValueEnd(j) < Len(s)
        hits == {j \in i..(Len(s) - Len(key)) : MatchesAt(j)}
    IN  IF hits = {} THEN None
        ELSE LET j == Least(hits)
             IN  Some(slice(s, j + Len(key) + 1, ValueEnd(j)))

AttrMatch(s, key) == AttrSearch(s, key, 0)

k_href        == <<"h","r","e","f","=">>
k_url         == <<"u","r","l","=">>
k_filename    == <<"f","i","l","e","n","a","m","e","=">>
k_caption     == <<"c","a","p","t","i","o","n","=">>
k_contentType == <<"c","o","n","t","e","n","t","-","t","y","p","e","=">>
k_src         == <<"s","r","c","=">>
k_alt         == <<"a","l","t","=">>
k_width       == <<"w","i","d","t","h","=">>
k_height      == <<"h","e","i","g","h","t","=">>

extractHref(attrs) == AttrMatch(attrs, k_href)

\* remaining.match(/^([^<]*)<(\/?)([\w-]+)([^>]*)>/): the groups and the length of
\* the match, or null.  [^<]* ends at the first "<"; the name is the longest run of
\* word characters after the optional "/"; the attributes end at the first ">".
tagMatch(remaining) ==
    LET lt == FindIn(remaining, {"<"}, 0)
    IN  IF lt = -1 THEN None
        ELSE LET slash == lt + 1 < Len(remaining) /\ remaining[lt + 2] = "/"
                 ns    == IF slash THEN lt + 2 ELSE lt + 1
                 ne    == SkipWhile(remaining, WordChars, ns)
                 gt    == FindIn(remaining, {">"}, ne)
             IN  IF ne = ns \/ gt = -1 THEN None
                 ELSE Some([text    |-> slice(remaining, 0, lt),
                            closing |-> slash,
                            name    |-> slice(remaining, ns, ne),
                            attrs   |-> slice(remaining, ne, gt),
                            length  |-> gt + 1])

\* textBefore.trim() === ""
TrimIsEmpty(s) == \A i \in 1..Len(s) : s[i] \in Whitespace

RECURSIVE CollapseFrom(_, _)
CollapseFrom(s, i) ==
    IF i >= Len(s) THEN <<>>
    ELSE IF s[i + 1] \in Whitespace
         THEN <<" ">> \o CollapseFrom(s, SkipWhile(s, Whitespace, i))
         ELSE <<s[i + 1]>> \o CollapseFrom(s, i + 1)

\* collapseWhitespace for the pattern /\s/g: every whitespace character on its own
collapseWhitespace_EachCharacter(s) ==
    [i \in 1..Len(s) |-> IF s[i] \in Whitespace THEN " " ELSE s[i]]

\* textBefore.replace(/\s+/g, " ")
collapseWhitespace(s) == CollapseFrom(s, 0)

closeTagOf(tagName) == <<"<", "/">> \o tagName \o <<">">>

RECURSIVE CountOpensFrom(_, _, _)
CountOpensFrom(seg, prefix, i) ==
    IF i + Len(prefix) > Len(seg) THEN 0
    ELSE LET gt == FindIn(seg, {">"}, i + Len(prefix))
         IN  IF StartsWithAtCI(seg, prefix, i) /\ gt # -1
             THEN 1 + CountOpensFrom(seg, prefix, gt + 1)
             ELSE CountOpensFrom(seg, prefix, i + 1)

\* (segment.match(new RegExp(`<${tagName}[^>]*>`, "gi")) || []).length
countOpens(segment, tagName) == CountOpensFrom(segment, <<"<">> \o tagName, 0)

(***************************************************************************)
(* html.ts: parseHtmlContent and findMatchingClose, one loop iteration per *)
(* step.  A frame of `stack` is one activation of parseHtmlContent:        *)
(*   remaining, state, defaultFg, listContext, nodes   as in the source    *)
(*   (listContext is the index of the object in ctxs),                     *)
(*   broke        the loop was left by `break`,                            *)
(*   tagName, tagAttrs   locals of the iteration that is waiting for       *)
(*                findMatchingClose or for the recursive call.             *)
(***************************************************************************)

NewContext(type) == [type |-> type, counter |-> 0]

Frame(h, state, fg, lc) ==
    [remaining |-> h, state |-> state, defaultFg |-> fg, listContext |-> lc,
     nodes |-> <<>>, broke |-> FALSE, tagName |-> <<>>, tagAttrs |-> <<>>]

Top == stack[Len(stack)]

SetTop(f) == [stack EXCEPT ![Len(stack)] = f]

NoFmc == [html |-> <<>>, tagName |-> <<>>, depth |-> 0, pos |-> 0]

\* RestNodes without the call of decodeHtmlEntities
RestNodes_Undecoded(f) ==
    IF Len(f.remaining) > 0
    THEN <<TextNode(f.remaining, IF f.state.code THEN CodeFg ELSE f.defaultFg, f.state)>>
    ELSE <<>>

\* lines 60-64: the text node of the input that holds no further tag
RestNodes(f) ==
    LET text == decodeHtmlEntities(f.remaining)
    IN  IF Len(text) > 0
        THEN <<TextNode(text, IF f.state.code THEN CodeFg ELSE f.defaultFg, f.state)>>
        ELSE <<>>

\* lines 70-77: the text node of the text before a tag
TextBeforeNodes(f, raw) ==
    LET textBefore == decodeHtmlEntities(raw)
        isFormattingWhitespace == TrimIsEmpty(textBefore) /\ includes(textBefore, NL)
    IN  IF Len(textBefore) > 0 /\ ~isFormattingWhitespace
        THEN <<TextNode(IF f.state.code THEN textBefore ELSE collapseWhitespace(textBefore),
                        IF f.state.code THEN CodeFg ELSE f.defaultFg, f.state)>>
        ELSE <<>>

\* line 82
AfterTag(remaining, m) == sliceFrom(remaining, m.length)

\* One iteration of the loop of parseHtmlContent, lines 54-99: up to `break`, to a
\* `continue`, or to the call of findMatchingClose.
Iterate ==
    /\ pc = "loop"
    /\ ~Top.broke
    /\ Len(Top.remaining) > 0
    /\ LET f == Top
           tm == tagMatch(f.remaining)
       IN  IF tm = None
           THEN /\ stack' = SetTop([f EXCEPT !.nodes = @ \o RestNodes(f), !.broke = TRUE])
                /\ UNCHANGED <<pc, fmc>>
           ELSE LET m       == tm[1]
                    nodes1  == f.nodes \o TextBeforeNodes(f, m.text)
                    tagName == toLowerCase(m.name)
                    rest    == AfterTag(f.remaining, m)
                IN  IF tagName = n_br
                    THEN /\ stack' = SetTop([f EXCEPT !.remaining = rest,
                                    !.nodes = nodes1 \o <<PlainNode(NL, f.defaultFg)>>])
                         /\ UNCHANGED <<pc, fmc>>
                    ELSE IF tagName = n_hr
                    THEN /\ stack' = SetTop([f EXCEPT !.remaining = rest,
                                    !.nodes = nodes1 \o <<PlainNode(HrText, "Theme.muted")>>])
                         /\ UNCHANGED <<pc, fmc>>
                    ELSE IF m.closing
                    THEN /\ stack' = SetTop([f EXCEPT !.remaining = rest, !.nodes = nodes1])
                         /\ UNCHANGED <<pc, fmc>>
                    ELSE /\ stack' = SetTop([f EXCEPT !.remaining = rest, !.nodes = nodes1,
                                    !.tagName = tagName, !.tagAttrs = m.attrs])
                         /\ pc' = "fmc"
                         /\ fmc' = [html |-> rest, tagName |-> tagName, depth |-> 1, pos |-> 0]
    /\ UNCHANGED <<fam, doc, html, state0, ctxs, attUrl, result, images, decoded>>
    /\ UNCHANGED <<themeVars, colorVars, extVars, cacheVars>>

\* the state handed to the recursive call, by tag (lines 110-236)
ChildState(tagName, state) ==
    IF tagName \in {n_b, n_strong, n_h1, n_h2, n_h3} THEN [state EXCEPT !.bold = TRUE]
    ELSE IF tagName \in {n_i, n_em, n_blockquote} THEN [state EXCEPT !.italic = TRUE]
    ELSE IF tagName \in {n_s, n_strike, n_del} THEN [state EXCEPT !.strikethrough = TRUE]
    ELSE IF tagName \in {n_code, n_pre} THEN [state EXCEPT !.code = TRUE]
    ELSE state

\* the defaultFg handed to the recursive call, by tag
ChildFg(tagName, defaultFg) ==
    IF tagName = n_h1 THEN "Theme.primary"
    ELSE IF tagName \in {n_h2, n_a} THEN "Theme.secondary"
    ELSE IF tagName = n_h3 THEN "Theme.accent"
    ELSE IF tagName = n_blockquote THEN "Theme.muted"
    ELSE IF tagName = n_pre THEN CodeFg
    ELSE defaultFg

\* the nodes pushed before the nodes of the recursive call; lc is the list context
\* after the increment of the li case
BeforeNodes(tagName, defaultFg, lc) ==
    IF tagName \in {n_h1, n_h2, n_h3, n_pre} THEN <<PlainNode(NL, defaultFg)>>
    ELSE IF tagName = n_li
         THEN IF lc.type = "ol"
              THEN <<PlainNode(NumberToString(lc.counter) \o <<".", " ">>, "Theme.accent")>>
              ELSE <<PlainNode(BulletText, "Theme.accent")>>
    ELSE IF tagName = n_blockquote THEN <<PlainNode(QuoteText, "Theme.muted")>>
    ELSE IF tagName = n_a THEN <<PlainNode(<<"[">>, "Theme.muted")>>
    ELSE <<>>

\* the nodes pushed after the nodes of the recursive call
AfterNodes(tagName, tagAttrs, defaultFg) ==
    IF tagName \in {n_h1, n_h2, n_h3, n_p, n_li, n_blockquote, n_pre}
    THEN <<PlainNode(NL, defaultFg)>>
    ELSE IF tagName = n_a
         THEN LET href == extractHref(tagAttrs)
              IN  <<PlainNode(<<"]">>, "Theme.muted")>>
                  \o (IF href # None
                      THEN <<PlainNode(<<"(">> \o href[1] \o <<")">>, "Theme.muted")>>
                      ELSE <<>>)
    ELSE <<>>

\* lines 208-211: make relative URLs absolute
AbsoluteUrl(url) == IF startsWith(url, <<"/">>) THEN Origin \o url ELSE url

\* lines 197-211 of the action-text-attachment case: the local `url`
AttachmentUrl(tagAttrs) ==
    LET urlMatch == AttrMatch(tagAttrs, k_url)
    IN  IF urlMatch = None THEN None ELSE Some(AbsoluteUrl(urlMatch[1]))

\* contentType?.startsWith(prefix)
ContentTypeStartsWith(contentType, prefix) ==
    contentType # None /\ startsWith(contentType[1], prefix)

\* AttachmentNodes with displayName = filename || caption || "attachment"
AttachmentNodes_FilenameFirst(tagAttrs, defaultFg) ==
    LET url         == AttachmentUrl(tagAttrs)
        filename    == AttrMatch(tagAttrs, k_filename)
        caption     == AttrMatch(tagAttrs, k_caption)
        contentType == AttrMatch(tagAttrs, k_contentType)
        displayName == IF filename # None THEN filename[1]
                       ELSE IF caption # None THEN caption[1]
                       ELSE s_attachment
        label       == PlainNode(<<"[">> \o displayName \o <<"]">>, "Theme.secondary")
    IN  IF url # None /\ ContentTypeStartsWith(contentType, s_imageSlash) THEN <<>>
        ELSE IF url # None /\ ContentTypeStartsWith(contentType, s_videoSlash)
        THEN <<PlainNode(NL, defaultFg), PlainNode(VideoIcon, "Theme.accent"),
               label, PlainNode(NL, defaultFg)>>
        ELSE IF url # None
        THEN <<PlainNode(NL, defaultFg), PlainNode(ClipIcon, "Theme.accent"),
               label, PlainNode(NL, defaultFg)>>
        ELSE <<>>

\* lines 195-229: the nodes of the action-text-attachment case
AttachmentNodes(tagAttrs, defaultFg) ==
    LET url         == AttachmentUrl(tagAttrs)
        filename    == AttrMatch(tagAttrs, k_filename)
        caption     == AttrMatch(tagAttrs, k_caption)
        contentType == AttrMatch(tagAttrs, k_contentType)
        displayName == IF caption # None THEN caption[1]
                       ELSE IF filename # None THEN filename[1]
                       ELSE s_attachment
        label       == PlainNode(<<"[">> \o displayName \o <<"]">>, "Theme.secondary")
    IN  IF url # None /\ ContentTypeStartsWith(contentType, s_imageSlash) THEN <<>>
        ELSE IF url # None /\ ContentTypeStartsWith(contentType, s_videoSlash)
        THEN <<PlainNode(NL, defaultFg), PlainNode(VideoIcon, "Theme.accent"),
               label, PlainNode(NL, defaultFg)>>
        ELSE IF url # None
        THEN <<PlainNode(NL, defaultFg), PlainNode(ClipIcon, "Theme.accent"),
               label, PlainNode(NL, defaultFg)>>
        ELSE <<>>

\* PassesListContext for a parser whose ul and ol hand the caller's object on
PassesListContext_SharedScope(tagName) ==
    tagName \in {n_b, n_strong, n_i, n_em, n_s, n_strike, n_del, n_code, n_h1, n_h2,
                 n_h3, n_p, n_blockquote, n_a, n_pre, n_div, n_span, n_figure,
                 n_figcaption, n_ul, n_ol}

\* the tags whose case hands the caller's listContext object on
PassesListContext(tagName) ==
    tagName \in {n_b, n_strong, n_i, n_em, n_s, n_strike, n_del, n_code, n_h1, n_h2,
                 n_h3, n_p, n_blockquote, n_a, n_pre, n_div, n_span, n_figure,
                 n_figcaption}

\* the ListContext object a case creates for the recursive call: li, ul and ol
\* write a literal, the default case leaves the parameter to its default value
CreatedContext(tagName) ==
    IF tagName = n_ul THEN NewContext("ul")
    ELSE IF tagName = n_ol THEN NewContext("ol")
    ELSE NewContext("null")

\* lines 101-236, from the return of findMatchingClose to the recursive call (or to
\* the end of the iteration for the cases that make none)
Dispatch(closeIndex) ==
    LET f == Top
    IN  IF closeIndex = -1
        THEN /\ pc' = "loop"
             /\ UNCHANGED <<stack, ctxs, attUrl>>
        ELSE LET innerHtml == slice(f.remaining, 0, closeIndex)
                 rest == sliceFrom(f.remaining, closeIndex + Len(closeTagOf(f.tagName)))
                 bump == f.tagName = n_li /\ ctxs[f.listContext].type = "ol"
                 heap == IF bump
                         THEN [ctxs EXCEPT ![f.listContext].counter = @ + 1]
                         ELSE ctxs
                 f1   == [f EXCEPT !.remaining = rest]
             IN  /\ pc' = "loop"
                 /\ IF f.tagName = n_attachment
                    THEN /\ stack' = SetTop([f1 EXCEPT !.nodes =
                                        @ \o AttachmentNodes(f.tagAttrs, f.defaultFg)])
                         /\ attUrl' = AttachmentUrl(f.tagAttrs)
                         /\ ctxs' = ctxs
                    ELSE IF f.tagName = n_img
                    THEN /\ stack' = SetTop(f1)
                         /\ UNCHANGED <<ctxs, attUrl>>
                    ELSE /\ stack' = Append(
                                SetTop([f1 EXCEPT !.nodes = @ \o
                                    BeforeNodes(f.tagName, f.defaultFg, heap[f.listContext])]),
                                Frame(innerHtml, ChildState(f.tagName, f.state),
                                      ChildFg(f.tagName, f.defaultFg),
                                      IF PassesListContext(f.tagName)
                                      THEN f.listContext ELSE Len(heap) + 1))
                         /\ ctxs' = IF PassesListContext(f.tagName) THEN heap
                                    ELSE Append(heap, CreatedContext(f.tagName))
                         /\ attUrl' = attUrl

\* line 261
\* NextPos for a scan that resumes at the closing tag it has just found
NextPos_AtClose(nextClose, closeTag) == nextClose

NextPos(nextClose, closeTag) == nextClose + Len(closeTag)

\* One evaluation of the loop condition of findMatchingClose and, when it holds, one
\* iteration (lines 249-262); a return continues parseHtmlContent at line 101.
FmcIterate ==
    /\ pc = "fmc"
    /\ LET closeTag == closeTagOf(fmc.tagName)
       IN  IF ~(fmc.depth > 0 /\ fmc.pos < Len(fmc.html))
           THEN Dispatch(-1) /\ fmc' = NoFmc
           ELSE LET nextClose == indexOf(toLowerCase(fmc.html), toLowerCase(closeTag), fmc.pos)
                    segment   == slice(fmc.html, fmc.pos, nextClose)
                    depth     == fmc.depth + countOpens(segment, fmc.tagName) - 1
                IN  IF nextClose = -1
                    THEN Dispatch(-1) /\ fmc' = NoFmc
                    ELSE IF depth = 0
                    THEN Dispatch(nextClose) /\ fmc' = NoFmc
                    ELSE /\ fmc' = [fmc EXCEPT !.depth = depth,
                                               !.pos = NextPos(nextClose, closeTag)]
                         /\ UNCHANGED <<pc, stack, ctxs, attUrl>>
    /\ UNCHANGED <<fam, doc, html, state0, result, images, decoded>>
    /\ UNCHANGED <<themeVars, colorVars, extVars, cacheVars>>

\* `return nodes` (line 239): the caller pushes the nodes and what its case pushes
\* after them; the outermost call returns to renderHtml.
Return ==
    /\ pc = "loop"
    /\ Top.broke \/ Len(Top.remaining) = 0
    /\ IF Len(stack) = 1
       THEN /\ result' = Top.nodes
            /\ stack' = <<>>
            /\ pc' = "done"
       ELSE LET caller == stack[Len(stack) - 1]
            IN  /\ stack' = [SubSeq(stack, 1, Len(stack) - 1) EXCEPT ![Len(stack) - 1] =
                        [caller EXCEPT !.nodes = @ \o Top.nodes
                            \o AfterNodes(caller.tagName, caller.tagAttrs, caller.defaultFg)]]
                /\ UNCHANGED <<result, pc>>
    /\ UNCHANGED <<fam, doc, html, state0, ctxs, fmc, attUrl, images, decoded>>
    /\ UNCHANGED <<themeVars, colorVars, extVars, cacheVars>>

(***************************************************************************)
(* image.ts: extractImageUrls                                              *)
(***************************************************************************)

Max(S) == CHOOSE j \in S : \A k \in S : k <= j

\* A match at offset i of the regular expression
\*     open [^>]+ key ["'] prefix [^"']+ ["'] [^>]* >      (flag i),
\* the shape of attachmentRegex and of imgRegex: the offset after the match and the
\* text between the quotes, or null.  [^>]+ is greedy: of the places where the rest
\* of the expression matches it takes the last.
TagRegexAt(s, i, open, key, prefix) ==
    IF ~StartsWithAtCI(s, open, i) THEN None
    ELSE LET a == i + Len(open)
             b == SkipUntil(s, {">"}, a)
             ValueEnd(j) == SkipUntil(s, Quotes, j + Len(key) + 1 + Len(prefix))
             Ok(j) == LET q  == j + Len(key)
                          vs == q + 1 + Len(prefix)
                      IN  /\ StartsWithAtCI(s, key, j)
                          /\ q < Len(s)
                          /\ s[q + 1] \in Quotes
                          /\ StartsWithAtCI(s, prefix, q + 1)
                          /\ ValueEnd(j) > vs
                          /\ ValueEnd(j) < Len(s)
                          /\ FindIn(s, {">"}, ValueEnd(j) + 1) # -1
             J == {j \in (a + 1)..b : Ok(j)}
         IN  IF J = {} THEN None
             ELSE LET j == Max(J)
                  IN  Some([end   |-> FindIn(s, {">"}, ValueEnd(j) + 1) + 1,
                            value |-> slice(s, j + Len(key) + 1, ValueEnd(j))])

\* regex.exec(s) with lastIndex = from: the leftmost match at or after `from`
RegexExec(s, from, open, key, prefix) ==
    LET starts == {i \in from..(Len(s) - 1) : TagRegexAt(s, i, open, key, prefix) # None}
    IN  IF starts = {} THEN None
        ELSE LET start == Least(starts)
                 m     == TagRegexAt(s, start, open, key, prefix)
             IN  Some([start |-> start, end |-> m[1].end, value |-> m[1].value])

RECURSIVE ParseIntFrom(_, _, _)
ParseIntFrom(s, i, acc) ==
    IF i > Len(s) THEN acc
    ELSE ParseIntFrom(s, i + 1,
            10 * acc + (CHOOSE d \in 0..9 : DigitChars[d + 1] = s[i]))

\* parseInt on a non-empty string of digits
parseInt(s) == ParseIntFrom(s, 1, 0)

\* tag.match(/key["'](\d+)["']/): the number, or undefined
DigitAttrSearch(s, key, i) ==
    LET ValueEnd(j) == SkipWhile(s, Digits, j + Len(key) + 1)
        MatchesAt(j) == LET q == j + Len(key)
                        IN  /\ StartsWithAt(s, key, j)
                            /\ q < Len(s)
                            /\ s[q + 1] \in Quotes
                            /\ ValueEnd(j) > q + 1
                            /\ ValueEnd(j) < Len(s)
                            /\ s[ValueEnd(j) + 1] \in Quotes
        hits == {j \in i..(Len(s) - Len(key)) : MatchesAt(j)}
    IN  IF hits = {} THEN None
        ELSE LET j == Least(hits)
             IN  Some(parseInt(slice(s, j + Len(key) + 1, ValueEnd(j))))

ImageInfo(url, alt, tag) ==
    [url |-> url, alt |-> alt,
     width  |-> DigitAttrSearch(tag, k_width, 0),
     height |-> DigitAttrSearch(tag, k_height, 0)]

\* ImageUrl without the origin
ImageUrl_Raw(url) == url

\* lines 70-73 and 96-99: make relative URLs absolute
ImageUrl(url) == IF startsWith(url, <<"/">>) THEN Origin \o url ELSE url

RECURSIVE AttachmentImages(_, _)
\* the first loop of extractImageUrls (lines 58-81), from lastIndex on
AttachmentImages(h, lastIndex) ==
    LET match == RegexExec(h, lastIndex, <<"<">> \o n_attachment, k_contentType, s_imageSlash)
    IN  IF match = None THEN <<>>
        ELSE LET tag           == slice(h, match[1].start, match[1].end)
                 urlMatch      == AttrMatch(tag, k_url)
                 filenameMatch == AttrMatch(tag, k_filename)
             IN  (IF urlMatch # None
                  THEN <<ImageInfo(ImageUrl(urlMatch[1]),
                                   IF filenameMatch # None THEN filenameMatch[1] ELSE s_image,
                                   tag)>>
                  ELSE <<>>)
                 \o AttachmentImages(h, match[1].end)

\* KeepsPlainImage without the test of line 95
KeepsPlainImage_Always(src, imgs) == TRUE

\* line 95: the plain image is pushed unless its src is relative and covered
KeepsPlainImage(src, imgs) ==
    \/ ~startsWith(src, <<"/">>)
    \/ ~\E k \in 1..Len(imgs) : includes(imgs[k].url, sliceFrom(src, 1))

RECURSIVE PlainImages(_, _, _)
\* the second loop of extractImageUrls (lines 84-107), from lastIndex on, with the
\* array `images` as it stands
PlainImages(h, lastIndex, imgs) ==
    LET match == RegexExec(h, lastIndex, <<"<">> \o n_img, k_src, <<>>)
    IN  IF match = None THEN imgs
        ELSE LET tag      == slice(h, match[1].start, match[1].end)
                 src      == match[1].value
                 altMatch == AttrMatch(tag, k_alt)
             IN  PlainImages(h, match[1].end,
                    IF KeepsPlainImage(src, imgs)
                    THEN Append(imgs, ImageInfo(ImageUrl(src),
                                    IF altMatch # None THEN altMatch[1] ELSE s_image, tag))
                    ELSE imgs)

\* extractImageUrls with its two loops in the other order
extractImageUrls_ImagesFirst(h) == PlainImages(h, 0, <<>>) \o AttachmentImages(h, 0)

extractImageUrls(h) == PlainImages(h, 0, AttachmentImages(h, 0))

\* the caller's extractImageUrls(html) on the markup that was rendered
Extract ==
    /\ pc = "done"
    /\ images' = extractImageUrls(html)
    /\ pc' = "extracted"
    /\ UNCHANGED <<fam, doc, html, state0, stack, ctxs, fmc, attUrl, result, decoded>>
    /\ UNCHANGED <<themeVars, colorVars, extVars, cacheVars>>

\* decodeHtmlEntities(html) as a call of its own
Decode ==
    /\ pc = "decode"
    /\ decoded' = decodeHtmlEntities(html)
    /\ pc' = "decoded"
    /\ UNCHANGED <<fam, doc, html, state0, stack, ctxs, fmc, attUrl, result, images>>
    /\ UNCHANGED <<themeVars, colorVars, extVars, cacheVars>>

(***************************************************************************)
(* theme (src/unnamed/part_003): colour arithmetic.  A colour is a string, *)
(* a sequence of characters as above.  A number that may have a fraction   *)
(* (the channels handed to rgbToHex) is carried as an integer in units of  *)
(* 1/Scale; with Scale = 100 the products with percent / 100 are exact,    *)
(* and Math.round of the double-precision value is the rounding of the     *)
(* exact value for every channel 0..255 and every percent in Percents.     *)
(***************************************************************************)

\* line 82: percent / 100
Scale == 100

\* the digits of Number.prototype.toString(16), in order of value
HexChars == <<"0","1","2","3","4","5","6","7","8","9","a","b","c","d","e","f">>

\* the regular-expression class [a-f\d] under the flag i
IsHexDigit(c) == \E v \in 1..16 : HexChars[v] = LowerChar(c)

HexDigitValue(c) == CHOOSE v \in 0..15 : HexChars[v + 1] = LowerChar(c)

\* parseInt(s, 16) on two hexadecimal digits
parseInt16(s) == 16 * HexDigitValue(s[1]) + HexDigitValue(s[2])

\* hexToRgb that also reads the 3-digit form, each digit doubled
hexToRgb_ShortForm(hex) ==
    LET digits == IF Len(hex) > 0 /\ hex[1] = "#" THEN Tail(hex) ELSE hex
    IN  IF Len(digits) = 3 /\ \A i \in 1..3 : IsHexDigit(digits[i])
        THEN [r |-> 17 * HexDigitValue(digits[1]),
              g |-> 17 * HexDigitValue(digits[2]),
              b |-> 17 * HexDigitValue(digits[3])]
        ELSE IF Len(digits) = 6 /\ \A i \in 1..6 : IsHexDigit(digits[i])
        THEN [r |-> parseInt16(SubSeq(digits, 1, 2)),
              g |-> parseInt16(SubSeq(digits, 3, 4)),
              b |-> parseInt16(SubSeq(digits, 5, 6))]
        ELSE [r |-> 0, g |-> 0, b |-> 0]

\* lines 54-64
hexToRgb(hex) ==
    LET digits == IF Len(hex) > 0 /\ hex[1] = "#" THEN Tail(hex) ELSE hex
    IN  IF Len(digits) = 6 /\ \A i \in 1..6 : IsHexDigit(digits[i])
        THEN [r |-> parseInt16(SubSeq(digits, 1, 2)),
              g |-> parseInt16(SubSeq(digits, 3, 4)),
              b |-> parseInt16(SubSeq(digits, 5, 6))]
        ELSE [r |-> 0, g |-> 0, b |-> 0]

\* the colour whose luminance, exactly 0.5, the double-precision expression of
\* line 70 evaluates to 0.5000000000000001; for every other colour the computed
\* luminance compares with 0.5 as the exact one does
ComputedAboveHalf == {[r |-> 218, g |-> 58, b |-> 248]}

\* lines 67-72; the luminance is compared in thousandths of 255
isLightBackground(hex) ==
    LET c == hexToRgb(hex)
        luminance == 299 * c.r + 587 * c.g + 114 * c.b
    IN  \/ luminance > 127500
        \/ luminance = 127500 /\ c \in ComputedAboveHalf

\* Math.round of a number >= 0 given in units of 1/Scale
MathRound(x) == (2 * x + Scale) \div (2 * Scale)

RECURSIVE toString16(_)
\* Number.prototype.toString(16) of an integer n >= 0
toString16(n) ==
    IF n < 16 THEN <<HexChars[n + 1]>>
    ELSE toString16(n \div 16) \o <<HexChars[(n % 16) + 1]>>

\* padStart(2, "0")
padStart2(s) == IF Len(s) < 2 THEN <<"0">> \o s ELSE s

\* rgbToHex without padStart
rgbToHex_Unpadded(r, g, b) ==
    <<"#">> \o toString16(MathRound(r)) \o toString16(MathRound(g))
           \o toString16(MathRound(b))

\* lines 75-77, on channels given in units of 1/Scale
rgbToHex(r, g, b) ==
    <<"#">> \o padStart2(toString16(MathRound(r)))
           \o padStart2(toString16(MathRound(g)))
           \o padStart2(toString16(MathRound(b)))

Min(a, b) == IF a < b THEN a ELSE b

\* lines 80-88
lighten(hex, percent) ==
    LET c == hexToRgb(hex)
    IN  rgbToHex(Min(255 * Scale, c.r * Scale + (255 - c.r) * percent),
                 Min(255 * Scale, c.g * Scale + (255 - c.g) * percent),
                 Min(255 * Scale, c.b * Scale + (255 - c.b) * percent))

\* lines 91-95
darken(hex, percent) ==
    LET c == hexToRgb(hex)
    IN  rgbToHex(c.r * (Scale - percent), c.g * (Scale - percent), c.b * (Scale - percent))

\* mix that cuts the fraction of every channel off
mix_Truncating(hex1, hex2, percent) ==
    LET c1 == hexToRgb(hex1)
        c2 == hexToRgb(hex2)
        Cut(x) == Scale * (x \div Scale)
    IN  rgbToHex(Cut(c1.r * Scale + (c2.r - c1.r) * percent),
                 Cut(c1.g * Scale + (c2.g - c1.g) * percent),
                 Cut(c1.b * Scale + (c2.b - c1.b) * percent))

\* lines 98-107
mix(hex1, hex2, percent) ==
    LET c1 == hexToRgb(hex1)
        c2 == hexToRgb(hex2)
    IN  rgbToHex(c1.r * Scale + (c2.r - c1.r) * percent,
                 c1.g * Scale + (c2.g - c1.g) * percent,
                 c1.b * Scale + (c2.b - c1.b) * percent)

(***************************************************************************)
(* theme: the palette state and its detection                              *)
(***************************************************************************)

\* lines 7-24
ANSI ==
    [BLACK |-> 0, RED |-> 1, GREEN |-> 2, YELLOW |-> 3, BLUE |-> 4, MAGENTA |-> 5,
     CYAN |-> 6, WHITE |-> 7, BRIGHT_BLACK |-> 8, BRIGHT_RED |-> 9, BRIGHT_GREEN |-> 10,
     BRIGHT_YELLOW |-> 11, BRIGHT_BLUE |-> 12, BRIGHT_MAGENTA |-> 13, BRIGHT_CYAN |-> 14,
     BRIGHT_WHITE |-> 15]

\* lines 27-44
FALLBACK_PALETTE ==
    <<<<"#","1","c","1","c","1","c">>,
      <<"#","f","f","5","f","5","f">>,
      <<"#","5","f","d","7","8","7">>,
      <<"#","f","f","f","f","8","7">>,
      <<"#","5","f","8","7","f","f">>,
      <<"#","f","f","5","f","a","f">>,
      <<"#","5","f","d","7","d","7">>,
      <<"#","d","0","d","0","d","0">>,
      <<"#","6","c","6","c","6","c">>,
      <<"#","f","f","8","7","8","7">>,
      <<"#","8","7","f","f","a","f">>,
      <<"#","f","f","f","f","a","f">>,
      <<"#","8","7","a","f","f","f">>,
      <<"#","f","f","8","7","d","7">>,
      <<"#","8","7","f","f","f","f">>,
      <<"#","f","f","f","f","f","f">>>>

White == <<"#","f","f","f","f","f","f">>

Black == <<"#","0","0","0","0","0","0">>

\* lines 47-51: the state when the module has loaded
ThemeAtLoad ==
    /\ palette = FALLBACK_PALETTE
    /\ defaultForeground = White
    /\ defaultBackground = Black
    /\ awaiting = 0
    /\ settled = <<>>
    /\ seen = None

\* the most calls of detectPalette
MaxCalls == 2

\* `if (x)` on a string that may be missing: neither null/undefined nor ""
Truthy(opt) == opt # None /\ opt[1] # <<>>

\* DetectedPalette with `c ?? palette[i]`: a null slot keeps its colour
DetectedPalette_KeepsSlot(queryResult) ==
    IF queryResult.palette # None /\ Len(queryResult.palette[1]) >= 16
    THEN [i \in 1..16 |->
            IF queryResult.palette[1][i] # None THEN queryResult.palette[1][i][1]
            ELSE palette[i]]
    ELSE palette

\* lines 119-123: the value of `palette` after a queryResult
DetectedPalette(queryResult) ==
    IF queryResult.palette # None /\ Len(queryResult.palette[1]) >= 16
    THEN [i \in 1..16 |->
            IF queryResult.palette[1][i] # None THEN queryResult.palette[1][i][1]
            ELSE FALLBACK_PALETTE[i]]
    ELSE palette

\* lines 126-128
DetectedForeground(queryResult) ==
    IF Truthy(queryResult.defaultForeground) THEN queryResult.defaultForeground[1]
    ELSE defaultForeground

\* lines 129-131
DetectedBackground(queryResult) ==
    IF Truthy(queryResult.defaultBackground) THEN queryResult.defaultBackground[1]
    ELSE defaultBackground

\* a detectPalette whose try has no catch
Settles_Uncaught(outcome) ==
    IF outcome \in {"rejects", "throws"} THEN "rejected" ELSE "fulfilled"

\* lines 114 and 133-135: how the promise of detectPalette settles, given how the
\* query ended
Settles(outcome) == "fulfilled"

\* what renderer.getPalette may resolve with: a 16-slot palette with a null and an
\* empty slot, one that is too short, one that is too long, or none; a default
\* foreground and background that are missing, empty, malformed or colours
Gray == <<"#","8","0","8","0","8","0">>

Red == <<"#","F","F","0","0","0","0">>

ShortHex == <<"#","f","f","f">>

SparsePalette == [i \in 1..16 |-> IF i = 6 THEN None ELSE IF i = 7 THEN Some(<<>>) ELSE Some(Gray)]

ShortPalette == [i \in 1..15 |-> Some(Red)]

LongPalette == [i \in 1..17 |-> Some(Red)]

\* #DA3AF8 has the exact luminance 0.5 and is computed above it; #01ade1 has the
\* exact luminance 0.5 and is computed as 0.5
HalfAbove == <<"#","D","A","3","A","F","8">>

HalfExact == <<"#","0","1","a","d","e","1">>

QueryResults ==
    [palette : {None, Some(SparsePalette), Some(ShortPalette), Some(LongPalette)},
     defaultForeground : {None, Some(<<>>), Some(Black), Some(ShortHex)},
     defaultBackground : {None, Some(White), Some(HalfAbove), Some(HalfExact), Some(ShortHex)}]

\* lines 113-115: a call of detectPalette, up to its await
DetectPalette ==
    /\ awaiting + Len(settled) < MaxCalls
    /\ awaiting' = awaiting + 1
    /\ UNCHANGED <<palette, defaultForeground, defaultBackground, settled, seen>>
    /\ UNCHANGED <<parseVars, colorVars, extVars, cacheVars>>

\* lines 115-132: the query resolves, with a queryResult or with none, and the call
\* runs to its end
GetPaletteResolves ==
    /\ awaiting > 0
    /\ awaiting' = awaiting - 1
    /\ \/ /\ settled' = Append(settled, [outcome |-> "none", promise |-> Settles("none")])
          /\ UNCHANGED <<palette, defaultForeground, defaultBackground>>
       \/ \E queryResult \in QueryResults :
            /\ settled' = Append(settled, [outcome |-> "result", promise |-> Settles("result")])
            /\ palette' = DetectedPalette(queryResult)
            /\ defaultForeground' = DetectedForeground(queryResult)
            /\ defaultBackground' = DetectedBackground(queryResult)
    /\ UNCHANGED seen
    /\ UNCHANGED <<parseVars, colorVars, extVars, cacheVars>>

\* lines 115 and 133-135: the query throws or its promise rejects
GetPaletteFails ==
    /\ awaiting > 0
    /\ awaiting' = awaiting - 1
    /\ \E outcome \in {"rejects", "throws"} :
          settled' = Append(settled, [outcome |-> outcome, promise |-> Settles(outcome)])
    /\ UNCHANGED <<palette, defaultForeground, defaultBackground, seen>>
    /\ UNCHANGED <<parseVars, colorVars, extVars, cacheVars>>

(***************************************************************************)
(* theme: the catalog                                                      *)
(***************************************************************************)

\* color without the fallbacks
color_Raw(index) == palette[index + 1]

\* lines 139-141
color(index) ==
    IF index \in 0..15 /\ palette[index + 1] # <<>> THEN palette[index + 1]
    ELSE IF index \in 0..15 THEN FALLBACK_PALETTE[index + 1]
    ELSE White

\* isLight of a theme that takes the luminance 0.5 for light
Theme_isLight_FromHalf ==
    LET c == hexToRgb(defaultBackground)
    IN  299 * c.r + 587 * c.g + 114 * c.b >= 127500

\* lines 151-153
Theme_isLight == isLightBackground(defaultBackground)

\* lines 156-161
Theme_terminalBackground == defaultBackground

Theme_terminalForeground == defaultForeground

\* lines 164-166
Theme_background == defaultBackground

\* lines 167-172
Theme_backgroundSubtle ==
    IF isLightBackground(defaultBackground) THEN darken(defaultBackground, 5)
    ELSE lighten(defaultBackground, 5)

\* lines 173-178
Theme_backgroundMuted ==
    IF isLightBackground(defaultBackground) THEN darken(defaultBackground, 12)
    ELSE lighten(defaultBackground, 12)

\* lines 181-183
Theme_text == defaultForeground

\* lines 184-189
Theme_textBright ==
    IF isLightBackground(defaultBackground) THEN darken(defaultForeground, 10)
    ELSE lighten(defaultForeground, 10)

\* a muted that was computed once, when the module loaded
Theme_muted_AtLoad == mix(White, Black, 40)

\* lines 190-193
Theme_muted == mix(defaultForeground, defaultBackground, 40)

\* lines 196-213
Theme_primary == color(ANSI.MAGENTA)

Theme_primaryBright == color(ANSI.BRIGHT_MAGENTA)

Theme_secondary == color(ANSI.BLUE)

Theme_secondaryBright == color(ANSI.BRIGHT_BLUE)

Theme_accent == color(ANSI.CYAN)

Theme_accentBright == color(ANSI.BRIGHT_CYAN)

\* lines 216-224
Theme_success == color(ANSI.GREEN)

Theme_warning == color(ANSI.YELLOW)

Theme_error == color(ANSI.RED)

\* lines 227-232
Theme_selected ==
    IF isLightBackground(defaultBackground) THEN darken(defaultBackground, 15)
    ELSE lighten(defaultBackground, 15)

\* lines 233-235
Theme_selectedText == defaultForeground

\* lines 236-238
Theme_border == mix(defaultForeground, defaultBackground, 60)

\* lines 239-241
Theme_borderFocused == color(ANSI.MAGENTA)

\* lines 144-245: the colour accessors of Theme, by name
Theme ==
    [terminalBackground |-> Theme_terminalBackground,
     terminalForeground |-> Theme_terminalForeground,
     background |-> Theme_background,
     backgroundSubtle |-> Theme_backgroundSubtle,
     backgroundMuted |-> Theme_backgroundMuted,
     text |-> Theme_text,
     textBright |-> Theme_textBright,
     muted |-> Theme_muted,
     primary |-> Theme_primary,
     primaryBright |-> Theme_primaryBright,
     secondary |-> Theme_secondary,
     secondaryBright |-> Theme_secondaryBright,
     accent |-> Theme_accent,
     accentBright |-> Theme_accentBright,
     success |-> Theme_success,
     warning |-> Theme_warning,
     error |-> Theme_error,
     selected |-> Theme_selected,
     selectedText |-> Theme_selectedText,
     border |-> Theme_border,
     borderFocused |-> Theme_borderFocused]

\* lines 250-271
FIZZY_COLORS_LIGHT ==
    "var(--color-card-1)" :> <<"#","9","a","9","a","9","f">>
    @@ "var(--color-card-2)" :> <<"#","b","5","9","a","6","e">>
    @@ "var(--color-card-3)" :> <<"#","c","9","a","0","0","0">>
    @@ "var(--color-card-4)" :> <<"#","7","d","b","0","0","0">>
    @@ "var(--color-card-5)" :> <<"#","0","0","9","e","b","3">>
    @@ "var(--color-card-6)" :> <<"#","8","a","6","e","d","9">>
    @@ "var(--color-card-7)" :> <<"#","b","9","4","d","c","9">>
    @@ "var(--color-card-8)" :> <<"#","e","4","5","b","9","e">>
    @@ "var(--color-card-default)" :> <<"#","2","b","7","d","d","e">>
    @@ "var(--color-card-complete)" :> <<"#","5","c","5","c","6","6">>

\* lines 273-295
FIZZY_COLORS_DARK ==
    "var(--color-card-1)" :> <<"#","8","f","8","f","9","7">>
    @@ "var(--color-card-2)" :> <<"#","a","0","8","f","6","e">>
    @@ "var(--color-card-3)" :> <<"#","a","8","8","9","0","0">>
    @@ "var(--color-card-4)" :> <<"#","6","d","9","6","0","0">>
    @@ "var(--color-card-5)" :> <<"#","0","0","8","f","a","0">>
    @@ "var(--color-card-6)" :> <<"#","7","a","5","f","d","0">>
    @@ "var(--color-card-7)" :> <<"#","a","4","4","6","b","0">>
    @@ "var(--color-card-8)" :> <<"#","c","5","5","0","8","a">>
    @@ "var(--color-card-default)" :> <<"#","5","a","9","e","e","d">>
    @@ "var(--color-card-complete)" :> <<"#","d","6","d","6","d","b">>

\* line 298
FIZZY_DEFAULT_VAR == "var(--color-card-default)"

\* names that every object literal inherits from Object.prototype
ObjectPrototypeKeys == {"constructor", "toString", "valueOf", "hasOwnProperty", "__proto__"}

\* stands for the function or object such a name yields: no colour string
InheritedValue == <<"[","o","b","j","e","c","t","]">>

\* colors[key] of lines 310 and 314: the own property, else the inherited one,
\* else undefined
Property(colors, key) ==
    IF key \in DOMAIN colors THEN Some(colors[key])
    ELSE IF key \in ObjectPrototypeKeys THEN Some(InheritedValue)
    ELSE None

\* lines 305-316; cssVar is an option, None for undefined
getFizzyColor(cssVar) ==
    LET colors == IF Theme_isLight THEN FIZZY_COLORS_LIGHT ELSE FIZZY_COLORS_DARK
    IN  IF cssVar = None \/ cssVar = Some("")
        THEN colors[FIZZY_DEFAULT_VAR]
        ELSE IF Property(colors, cssVar[1]) # None
             THEN Property(colors, cssVar[1])[1]
             ELSE colors[FIZZY_DEFAULT_VAR]

\* lines 321-325
getFizzyColorDimmed(cssVar) == mix(getFizzyColor(cssVar), Theme_background, 50)

\* the arguments getFizzyColor is read with: undefined, the empty string, the ten
\* keys of the tables, a key of neither table, and names of Object.prototype
CssVars ==
    {None, Some(""), Some("var(--color-card-9)"), Some("constructor"), Some("toString")}
        \cup {Some(k) : k \in DOMAIN FIZZY_COLORS_LIGHT \cup DOMAIN FIZZY_COLORS_DARK}

\* one read of every accessor
Reading ==
    [theme  |-> Theme,
     isLight |-> Theme_isLight,
     color  |-> [i \in 0..15 |-> color(i)],
     fizzy  |-> [c \in CssVars |-> getFizzyColor(c)],
     dimmed |-> [c \in CssVars |-> getFizzyColorDimmed(c)]]

\* a consumer reads the catalog; it does so whether or not a detection is pending
ReadTheme ==
    /\ seen' = Some(Reading)
    /\ UNCHANGED <<palette, defaultForeground, defaultBackground, awaiting, settled>>
    /\ UNCHANGED <<parseVars, colorVars, extVars, cacheVars>>


(***************************************************************************)
(* theme: single calls of the colour functions, on arguments drawn from    *)
(* samples                                                                 *)
(***************************************************************************)

ColorIdle == cin = None /\ cout = <<>>

\* channel values: the ends, the one-digit values, and values between
ByteSamples == {0, 1, 9, 10, 15, 16, 127, 128, 171, 254, 255}

UpperHexChars == <<"0","1","2","3","4","5","6","7","8","9","A","B","C","D","E","F">>

\* the two digits of a channel value, in lower case, in upper case, or mixed
Spell2(v, casing) ==
    <<(IF casing = "lower" THEN HexChars ELSE UpperHexChars)[(v \div 16) + 1],
      (IF casing = "upper" THEN UpperHexChars ELSE HexChars)[(v % 16) + 1]>>

\* a well-formed 6-digit hex string for the channels rgb
Spell(rgb, casing, hash) ==
    (IF hash THEN <<"#">> ELSE <<>>)
        \o Spell2(rgb[1], casing) \o Spell2(rgb[2], casing) \o Spell2(rgb[3], casing)

\* strings that are no 6-digit hex colour: empty, too short (the 3-digit form), too
\* long, with a character that is no hex digit
MalformedHex ==
    {<<>>, <<"#">>, <<"#","f","f","f">>, <<"f","f","f">>, <<"#","1","2","3","4","5">>, <<"#","1","2","3","4","5","6","7">>, <<"#","g","g","g","g","g","g">>, <<"#","1","2","3","4","5","g">>, <<"#","#","1","2","3","4","5","6">>, <<"#","1","2"," ","4","5","6">>, <<"0","x","1","2","3","4">>}

\* the percentages for which the colour functions are called
Percents == {0, 5, 10, 12, 15, 40, 50, 60, 100}

Call(op, hex, hex2, rgb, percent, wellFormed) ==
    [op |-> op, hex |-> hex, hex2 |-> hex2, rgb |-> rgb, percent |-> percent,
     wellFormed |-> wellFormed]

\* every value of a channel
Bytes == 0..255

RgbCalls ==
    {Call("rgbToHex", <<>>, <<>>, <<r, g, b>>, 0, TRUE) :
        r \in ByteSamples, g \in ByteSamples, b \in ByteSamples}
    \cup {Call("rgbToHex", <<>>, <<>>, <<v, 255 - v, (v + 128) % 256>>, 0, TRUE) : v \in Bytes}

HexCalls ==
    {Call("hexToRgb", Spell(<<r, g, b>>, casing, hash), <<>>, <<r, g, b>>, 0, TRUE) :
        r \in ByteSamples, g \in {10, 171}, b \in {15, 254},
        casing \in {"lower", "upper", "mixed"}, hash \in BOOLEAN}
    \cup {Call("hexToRgb", Spell(<<v, 255 - v, (v + 128) % 256>>, casing, hash), <<>>,
                <<v, 255 - v, (v + 128) % 256>>, 0, TRUE) :
             v \in Bytes, casing \in {"lower", "upper", "mixed"}, hash \in BOOLEAN}
    \cup {Call("hexToRgb", h, <<>>, <<0, 0, 0>>, 0, FALSE) : h \in MalformedHex}

\* the colours the derived calls are made on: malformed strings and a few colours
DerivedHex == MalformedHex \cup {Black, White, Spell(<<16, 127, 254>>, "mixed", TRUE)}

DerivedCalls ==
    {Call(op, h, <<>>, <<0, 0, 0>>, p, h \notin MalformedHex) :
        op \in {"lighten", "darken"}, h \in DerivedHex, p \in Percents}
    \cup {Call("mix", h, h2, <<0, 0, 0>>, p, h \notin MalformedHex /\ h2 \notin MalformedHex) :
        h \in DerivedHex, h2 \in DerivedHex, p \in {0, 40, 50, 100}}
    \cup {Call("isLightBackground", h, <<>>, <<0, 0, 0>>, 0, h \notin MalformedHex) :
        h \in DerivedHex \cup {HalfAbove, HalfExact}}

\* rgbToHex(r, g, b) on the given channels, or on those hexToRgb has returned
ApplyRgbToHex ==
    /\ cin # None
    /\ \/ /\ cin[1].op = "rgbToHex" /\ cout = <<>>
          /\ cout' = <<rgbToHex(cin[1].rgb[1] * Scale, cin[1].rgb[2] * Scale,
                                cin[1].rgb[3] * Scale)>>
       \/ /\ cin[1].op = "hexToRgb" /\ Len(cout) = 1
          /\ cout' = Append(cout, rgbToHex(cout[1].r * Scale, cout[1].g * Scale,
                                           cout[1].b * Scale))
    /\ UNCHANGED <<cin, parseVars, themeVars, extVars, cacheVars>>

\* hexToRgb(hex) on the given string, or on the one rgbToHex has returned
ApplyHexToRgb ==
    /\ cin # None
    /\ \/ /\ cin[1].op = "hexToRgb" /\ cout = <<>>
          /\ cout' = <<hexToRgb(cin[1].hex)>>
       \/ /\ cin[1].op = "rgbToHex" /\ Len(cout) = 1
          /\ cout' = Append(cout, hexToRgb(cout[1]))
    /\ UNCHANGED <<cin, parseVars, themeVars, extVars, cacheVars>>

ApplyLighten ==
    /\ cin # None /\ cin[1].op = "lighten" /\ cout = <<>>
    /\ cout' = <<lighten(cin[1].hex, cin[1].percent)>>
    /\ UNCHANGED <<cin, parseVars, themeVars, extVars, cacheVars>>

ApplyDarken ==
    /\ cin # None /\ cin[1].op = "darken" /\ cout = <<>>
    /\ cout' = <<darken(cin[1].hex, cin[1].percent)>>
    /\ UNCHANGED <<cin, parseVars, themeVars, extVars, cacheVars>>

ApplyMix ==
    /\ cin # None /\ cin[1].op = "mix" /\ cout = <<>>
    /\ cout' = <<mix(cin[1].hex, cin[1].hex2, cin[1].percent)>>
    /\ UNCHANGED <<cin, parseVars, themeVars, extVars, cacheVars>>

ApplyIsLightBackground ==
    /\ cin # None /\ cin[1].op = "isLightBackground" /\ cout = <<>>
    /\ cout' = <<isLightBackground(cin[1].hex)>>
    /\ UNCHANGED <<cin, parseVars, themeVars, extVars, cacheVars>>

(***************************************************************************)
(* Browser extension: the board paths in chrome.storage.local, written by  *)
(* the content script (src/chrome-extension/content.js), the popup         *)
(* (src/unnamed/part_001) and the service worker (src/unnamed/part_000).   *)
(* Every handler reads the whole boardPaths map, changes its copy and      *)
(* writes the copy back; the read is taken when the handler starts and the *)
(* rest runs when the read has resolved.                                   *)
(***************************************************************************)

\* the most handlers that run at the same time
MaxHandlers == 2

Boards == {"b1", "b2"}

\* content.js lines 13-16: the card number of the page
CardNumber == <<"4","2">>

\* what the user types for a path, and leaves blank
RawPath == <<" ","/","a"," ","b"," ">>

BlankPath == <<" ">>

BoardName == "Board"

RECURSIVE TrimStart(_)
TrimStart(s) == IF s # <<>> /\ Head(s) \in Whitespace THEN TrimStart(Tail(s)) ELSE s

RECURSIVE TrimEnd(_)
TrimEnd(s) ==
    IF s # <<>> /\ s[Len(s)] \in Whitespace THEN TrimEnd(SubSeq(s, 1, Len(s) - 1)) ELSE s

\* String.prototype.trim
trim(s) == TrimEnd(TrimStart(s))

\* content.js line 73: the value the content script stores for a board
StringEntry(path) == [format |-> "string", path |-> path, boardName |-> ""]

\* part_001 lines 83 and 109, part_000 line 134: the value the popup and the
\* service worker store
ObjectEntry(path, boardName) == [format |-> "object", path |-> path, boardName |-> boardName]

\* `result.boardPaths || {}`
NoBoardPaths == [b \in Boards |-> None]

ExtensionIdle ==
    /\ boardPaths = NoBoardPaths
    /\ handlers = <<>>
    /\ locationHref = None

s_objectObject == <<"[","o","b","j","e","c","t"," ","O","b","j","e","c","t","]">>

\* the string URLSearchParams makes of a value
StringOf(value) == IF value.format = "string" THEN value.path ELSE s_objectObject

\* the characters application/x-www-form-urlencoded leaves as they are
FormSafe == LowerLetters \cup DOMAIN LowerMap \cup Digits \cup {"*", "-", ".", "_"}

\* the percent-encoding of the other characters that occur
PercentCodes ==
    "/" :> <<"%","2","F">> @@ "[" :> <<"%","5","B">> @@ "]" :> <<"%","5","D">>
        @@ ":" :> <<"%","3","A">> @@ "~" :> <<"%","7","E">>

RECURSIVE FormEncode(_)
\* URLSearchParams.prototype.toString on one value
FormEncode(s) ==
    IF s = <<>> THEN <<>>
    ELSE (IF Head(s) \in FormSafe THEN <<Head(s)>>
          ELSE IF Head(s) = " " THEN <<"+">>
          ELSE PercentCodes[Head(s)])
         \o FormEncode(Tail(s))

\* content.js lines 85-92
buildHatchetUrl(cardNumber, projectPath) ==
    <<"h","a","t","c","h","e","t",":","/","/","c","a","r","d","/">> \o cardNumber \o <<"?","p","a","t","h","=">>
        \o FormEncode(StringOf(projectPath)) \o <<"&","l","a","u","n","c","h","-","o","p","e","n","c","o","d","e","=","t","r","u","e","&","w","i","t","h","-","c","o","n","t","e","x","t","=","t","r","u","e">>

Handler(type, board, path, boardName) ==
    [type |-> type, step |-> "get", board |-> board, path |-> path,
     boardName |-> boardName, boardPaths |-> boardPaths]

Finished(i) == SubSeq(handlers, 1, i - 1) \o SubSeq(handlers, i + 1, Len(handlers))

Starts(h) ==
    /\ Len(handlers) < MaxHandlers
    /\ handlers' = Append(handlers, h)
    /\ UNCHANGED <<boardPaths, locationHref>>
    /\ UNCHANGED <<parseVars, themeVars, colorVars, cacheVars>>

Running(i, type, step) ==
    /\ i \in 1..Len(handlers)
    /\ handlers[i].type = type
    /\ handlers[i].step = step

\* content.js lines 51-63: a click on the button of a card page whose card number
\* and board were detected, up to the read of the storage
HandleHatchetClick(b) ==
    /\ b \in Boards
    /\ Starts(Handler("click", b, <<>>, ""))

\* content.js lines 64-70 and 77-81: the stored value is there and the page
\* navigates, or it is not and the dialog is put up
ClickContinues(i) ==
    /\ Running(i, "click", "get")
    /\ LET h == handlers[i]
           projectPath == h.boardPaths[h.board]
       IN  IF projectPath # None
           THEN /\ locationHref' = Some(buildHatchetUrl(CardNumber, projectPath[1]))
                /\ handlers' = Finished(i)
           ELSE /\ handlers' = [handlers EXCEPT ![i].step = "prompt"]
                /\ UNCHANGED locationHref
    /\ UNCHANGED boardPaths
    /\ UNCHANGED <<parseVars, themeVars, colorVars, cacheVars>>

\* content.js lines 141-146 and 72-74: Save with a path that is not blank
PromptSaves(i) ==
    /\ Running(i, "click", "prompt")
    /\ LET h    == handlers[i]
           path == trim(RawPath)
           copy == [h.boardPaths EXCEPT ![h.board] = Some(StringEntry(path))]
       IN  /\ path # <<>>
           /\ boardPaths' = copy
           /\ handlers' = [handlers EXCEPT ![i].step = "set", ![i].boardPaths = copy]
    /\ UNCHANGED locationHref
    /\ UNCHANGED <<parseVars, themeVars, colorVars, cacheVars>>

\* content.js lines 131-139 and 70: the dialog is closed or cancelled
PromptCancels(i) ==
    /\ Running(i, "click", "prompt")
    /\ handlers' = Finished(i)
    /\ UNCHANGED <<boardPaths, locationHref>>
    /\ UNCHANGED <<parseVars, themeVars, colorVars, cacheVars>>

\* content.js lines 77-81, after the write of line 74
ClickNavigates(i) ==
    /\ Running(i, "click", "set")
    /\ locationHref' = Some(buildHatchetUrl(CardNumber, handlers[i].boardPaths[handlers[i].board][1]))
    /\ handlers' = Finished(i)
    /\ UNCHANGED boardPaths
    /\ UNCHANGED <<parseVars, themeVars, colorVars, cacheVars>>

\* part_001 lines 83-84 and 109-110, part_000 lines 133-135: the copy with the
\* board's entry replaced is written back
WritesObject(i) ==
    /\ boardPaths' =
          [handlers[i].boardPaths EXCEPT
              ![handlers[i].board] = Some(ObjectEntry(handlers[i].path, handlers[i].boardName))]
    /\ handlers' = Finished(i)
    /\ UNCHANGED locationHref
    /\ UNCHANGED <<parseVars, themeVars, colorVars, cacheVars>>

\* part_001 lines 122-123, part_000 lines 145-147: the copy without the board's
\* entry is written back
WritesDeletion(i) ==
    /\ boardPaths' = [handlers[i].boardPaths EXCEPT ![handlers[i].board] = None]
    /\ handlers' = Finished(i)
    /\ UNCHANGED locationHref
    /\ UNCHANGED <<parseVars, themeVars, colorVars, cacheVars>>

\* part_001 lines 68-81: the add form is submitted with no field blank
FormSubmit(b) ==
    /\ trim(RawPath) # <<>>
    /\ Starts(Handler("form", b, trim(RawPath), BoardName))

\* part_001 lines 82-84
FormContinues(i) ==
    /\ Running(i, "form", "get")
    /\ WritesObject(i)

\* part_001 lines 94-107: a listed board is edited, and neither prompt is cancelled
\* nor the path left blank
EditBoard(b) ==
    /\ boardPaths[b] # None
    /\ trim(RawPath) # <<>>
    /\ Starts(Handler("edit", b, trim(RawPath), BoardName))

\* part_001 lines 108-110
EditContinues(i) ==
    /\ Running(i, "edit", "get")
    /\ WritesObject(i)

\* part_000 lines 130-132: a SET_BOARD_PATH message arrives
SetBoardPath(b) ==
    /\ b \in Boards
    /\ Starts(Handler("SET_BOARD_PATH", b, trim(RawPath), BoardName))

\* part_000 lines 133-137
SetBoardPathContinues(i) ==
    /\ Running(i, "SET_BOARD_PATH", "get")
    /\ WritesObject(i)

\* part_001 lines 117-120: a listed board is deleted and the question confirmed
DeleteBoard(b) ==
    /\ boardPaths[b] # None
    /\ Starts(Handler("delete", b, <<>>, ""))

\* part_001 lines 121-123
DeleteContinues(i) ==
    /\ Running(i, "delete", "get")
    /\ WritesDeletion(i)

\* part_000 lines 142-144: a DELETE_BOARD_PATH message arrives
DeleteBoardPath(b) ==
    /\ b \in Boards
    /\ Starts(Handler("DELETE_BOARD_PATH", b, <<>>, ""))

\* part_000 lines 145-149
DeleteBoardPathContinues(i) ==
    /\ Running(i, "DELETE_BOARD_PATH", "get")
    /\ WritesDeletion(i)

(***************************************************************************)
(* helpers/fizzy.ts and helpers/github.ts: the detail caches.  A cache is  *)
(* a Map from numbers to records, here a function from Numbers to options  *)
(* (None: the Map has no entry).  The external command is a process whose  *)
(* result the caller cannot foresee: it exits with an error, prints text   *)
(* that is no JSON, or prints a JSON value.                                *)
(***************************************************************************)

\* the largest card or pull request number
MaxNumber == 2

Numbers == 1..MaxNumber

\* what the service holds for a number changes over time
Versions == {"v1", "v2"}

Details(n, v) == [number |-> n, title |-> v]

\* execSync and JSON.parse of `fizzy card show n`: a failure to run, an output that
\* does not parse, or a parsed value with or without `success: false` and `data`
FizzyResults(n) ==
    {[kind |-> "exit"], [kind |-> "text"]}
        \cup [kind : {"json"}, success : {TRUE, FALSE},
              data : {None} \cup {Some(Details(n, v)) : v \in Versions}]

\* execSync and JSON.parse of `gh pr view n --json ...`: as above; the parsed value
\* is the pull request itself, or a value without its fields
GhResults(n) ==
    {[kind |-> "exit"], [kind |-> "text"]}
        \cup [kind : {"json"}, pr : {None} \cup {Some(Details(n, v)) : v \in Versions}]

Throws == [threw |-> TRUE]

Returns(value) == [threw |-> FALSE, value |-> value]

\* fizzy.ts lines 7-21
fizzyCmd(r) ==
    IF r.kind # "json" THEN Throws
    ELSE IF r.success = FALSE THEN Throws
    ELSE Returns(r)

\* fizzy.ts lines 127-136: response.data || null, and null when fizzyCmd throws
fetchCard(r) ==
    LET response == fizzyCmd(r)
    IN  IF response.threw THEN None ELSE response.value.data

\* github.ts lines 7-17
ghCmd(r) == IF r.kind # "json" THEN Throws ELSE Returns(r.pr)

\* github.ts lines 109-136: the fields of the parsed value, and null when ghCmd
\* throws or when reading pr.state.toLowerCase() or pr.author.login throws
fetchPR(r) ==
    LET pr == ghCmd(r)
    IN  IF pr.threw THEN None
        ELSE IF pr.value = None THEN None
        ELSE Some(Details(pr.value[1].number, pr.value[1].title))

\* a Map with every entry a truthy record: has, get and set
has_Never(cache, n) == FALSE

has(cache, n) == cache[n] # None

get(cache, n) == cache[n]

set(cache, n, value) == [cache EXCEPT ![n] = Some(value)]

\* fizzy.ts line 139 and github.ts line 139: the Maps when the modules have loaded
CacheAtLoad ==
    /\ cardDetailsCache = [n \in Numbers |-> None]
    /\ prDetailsCache = [n \in Numbers |-> None]
    /\ returned = None

\* what a call did: whether it ran the external command, and what it returned
CacheCall(name, n, ran, value) == [name |-> name, n |-> n, ran |-> ran, value |-> value]

\* fizzy.ts lines 141-152
FetchCardDetails(n) ==
    /\ n \in Numbers
    /\ IF has(cardDetailsCache, n)
       THEN /\ returned' = Some(CacheCall("fetchCardDetails", n, FALSE, get(cardDetailsCache, n)))
            /\ UNCHANGED cardDetailsCache
       ELSE \E r \in FizzyResults(n) :
                LET card == fetchCard(r)
                IN  /\ cardDetailsCache' = IF card # None
                                           THEN set(cardDetailsCache, n, card[1])
                                           ELSE cardDetailsCache
                    /\ returned' = Some(CacheCall("fetchCardDetails", n, TRUE, card))
    /\ UNCHANGED prDetailsCache
    /\ UNCHANGED <<parseVars, themeVars, colorVars, extVars>>

\* fizzy.ts lines 154-156
ClearCardCache ==
    /\ cardDetailsCache' = [n \in Numbers |-> None]
    /\ returned' = Some(CacheCall("clearCardCache", 0, FALSE, None))
    /\ UNCHANGED prDetailsCache
    /\ UNCHANGED <<parseVars, themeVars, colorVars, extVars>>

\* github.ts lines 144-154
FetchPRDetails(n) ==
    /\ n \in Numbers
    /\ IF has(prDetailsCache, n)
       THEN /\ returned' = Some(CacheCall("fetchPRDetails", n, FALSE, get(prDetailsCache, n)))
            /\ UNCHANGED prDetailsCache
       ELSE \E r \in GhResults(n) :
                LET pr == fetchPR(r)
                IN  /\ prDetailsCache' = IF pr # None
                                         THEN set(prDetailsCache, n, pr[1])
                                         ELSE prDetailsCache
                    /\ returned' = Some(CacheCall("fetchPRDetails", n, TRUE, pr))
    /\ UNCHANGED cardDetailsCache
    /\ UNCHANGED <<parseVars, themeVars, colorVars, extVars>>

\* github.ts lines 159-161
ClearPRCache ==
    /\ prDetailsCache' = [n \in Numbers |-> None]
    /\ returned' = Some(CacheCall("clearPRCache", 0, FALSE, None))
    /\ UNCHANGED cardDetailsCache
    /\ UNCHANGED <<parseVars, themeVars, colorVars, extVars>>

(***************************************************************************)
(* Inputs.  A document is a sequence of tokens; the program sees only its  *)
(* rendering as text.                                                      *)
(***************************************************************************)

Txt(s) == [k |-> "text", n |-> s, a |-> <<>>]

OpenA(n, a) == [k |-> "open", n |-> n, a |-> a]

Open(n) == OpenA(n, <<>>)

Close(n) == [k |-> "close", n |-> n, a |-> <<>>]

RenderToken(t) ==
    IF t.k = "text" THEN t.n
    ELSE IF t.k = "open" THEN <<"<">> \o t.n \o t.a \o <<">">>
    ELSE <<"<", "/">> \o t.n \o <<">">>

RECURSIVE RenderFrom(_, _)
RenderFrom(d, i) == IF i > Len(d) THEN <<>> ELSE RenderToken(d[i]) \o RenderFrom(d, i + 1)

Render(d) == RenderFrom(d, 1)

SeqsUpTo(S, n) == UNION {[1..k -> S] : k \in 0..n}

\* the longest document of the unstructured families, in tokens
MaxLen == 4

\* the deepest nesting of style tags in the style family
MaxDepth == 2

\* the most items of one list in the list family
MaxItems == 2

\* the longest document of the media family, in tokens
MaxMedia == 3

T_x == Txt(<<"x">>)

\* unstructured markup: text, a "<" that starts no tag, matched and unmatched tags
FuzzTokens ==
    {T_x, Txt(<<"<", " ">>), Open(n_b), Close(n_b), Open(n_i), Close(n_i),
     Open(n_br), Close(n_br)}

FuzzDocs == SeqsUpTo(FuzzTokens, MaxLen)

\* pieces of entity escapes, so that whole, partial and escaped escapes occur
EntityTokens ==
    {Txt(<<"&">>), Txt(<<"a","m","p",";">>), Txt(<<"l","t",";">>), Txt(<<"g","t",";">>),
     Txt(<<"q","u","o","t",";">>), Txt(<<"#","3","9",";">>), Txt(<<"n","b","s","p",";">>),
     Open(n_br)}

EntityDocs == SeqsUpTo(EntityTokens, MaxLen)

\* text without any tag
PlainTokens ==
    {T_x, Txt(E_amp), Txt(<<"q","u","o","t",";">>), Txt(<<"<", " ">>), Txt(<<" ", "\n">>)}

PlainDocs == SeqsUpTo(PlainTokens, MaxLen)

StyleStates ==
    [bold : BOOLEAN, italic : BOOLEAN, strikethrough : BOOLEAN, code : BOOLEAN]

\* the inputs of decodeHtmlEntities: the pieces of all six escapes
DecodeTokens ==
    {T_x, Txt(<<"&">>), Txt(<<"a","m","p",";">>), Txt(<<"l","t",";">>),
     Txt(<<"g","t",";">>), Txt(<<"q","u","o","t",";">>), Txt(<<"#","3","9",";">>),
     Txt(<<"n","b","s","p",";">>)}

DecodeDocs == SeqsUpTo(DecodeTokens, MaxLen)

StyleNames == {n_b, n_strong, n_i, n_em, n_s, n_strike, n_del}

Wrap(n, d) == <<Open(n)>> \o d \o <<Close(n)>>

RECURSIVE StyleDocsAt(_)
\* well-nested style tags to depth d around a text, with text before and after
StyleDocsAt(d) ==
    IF d = 0 THEN {<<T_x>>}
    ELSE LET inner == StyleDocsAt(d - 1)
         IN  inner \cup
             {pre \o Wrap(n, in) \o <<T_x>> :
                 pre \in {<<>>, <<T_x>>}, n \in StyleNames, in \in inner}

StyleDocs == StyleDocsAt(MaxDepth)

ListNames == {n_ol, n_ul}

T_a == Txt(<<"a">>)

RECURSIVE Items(_, _, _)
\* n list items; item number `at` also holds the markup `nested`
Items(n, at, nested) ==
    IF n = 0 THEN <<>>
    ELSE Items(n - 1, at, nested)
            \o Wrap(n_li, IF n = at THEN <<T_a>> \o nested ELSE <<T_a>>)

FlatLists == {Wrap(k, Items(n, 0, <<>>)) : k \in ListNames, n \in 1..MaxItems}

NestedLists ==
    {Wrap(k, Items(n, at, inner)) :
        k \in ListNames, n \in 1..MaxItems, at \in 1..MaxItems,
        inner \in FlatLists \cup {Wrap(n_div, l) : l \in FlatLists}}

\* a list, flat or with a list nested in one item, and an optional sibling list
ListDocs ==
    {first \o second :
        first \in FlatLists \cup NestedLists, second \in {<<>>} \cup FlatLists}

\* a link target that holds an escaped ampersand, and one that holds none
HrefValues == {<<"?","a">> \o E_amp \o <<"b">>, <<"?","a">>}

HrefAttr(v) == <<" ">> \o k_href \o <<"\"">> \o v \o <<"\"">>

LinkDocs ==
    {pre \o <<OpenA(n_a, h)>> \o in \o <<Close(n_a)>> :
        pre \in {<<>>, <<T_x>>}, h \in {HrefAttr(v) : v \in HrefValues} \cup {<<>>},
        in \in {<<T_x>>, <<Txt(E_amp)>>, Wrap(n_b, <<T_x>>)}}

Quoted(key, v) == <<" ">> \o key \o <<"\"">> \o v \o <<"\"">>

ct_image == s_imageSlash \o <<"p">>
ct_video == s_videoSlash \o <<"m">>
s_p      == <<"p">>

\* an action-text-attachment tag with a content-type and, when url is Some, a url;
\* the fields url and ct repeat what the attributes say
Att(ct, url) ==
    [k |-> "open", n |-> n_attachment,
     a |-> Quoted(k_contentType, ct) \o (IF url = None THEN <<>> ELSE Quoted(k_url, url[1])),
     url |-> url, ct |-> ct]

\* a plain image tag with a src and the alt text "p"
Img(src) ==
    [k |-> "open", n |-> n_img, a |-> Quoted(k_src, src) \o Quoted(k_alt, s_p),
     url |-> Some(src), ct |-> <<>>]

MediaUrls == {<<"/","b">>, <<"/","c">>, <<"b">>}

MediaTokens ==
    {Att(ct_image, Some(u)) : u \in MediaUrls}
        \cup {Att(ct_video, Some(<<"/","b">>)), Att(ct_image, None)}
        \cup {Img(u) : u \in MediaUrls}
        \cup {Close(n_attachment)}

MediaDocs == SeqsUpTo(MediaTokens, MaxMedia)

AllNames ==
    {n_b, n_strong, n_i, n_em, n_s, n_strike, n_del, n_code, n_h1, n_h2, n_h3, n_p,
     n_li, n_blockquote, n_a, n_pre, n_ul, n_ol, n_div, n_span, n_figure,
     n_figcaption, n_attachment, n_img, n_br, n_hr, <<"u">>}

T_hello == Txt(<<"h","e","l","l","o">>)

\* one tag without a partner, before a text: every closing tag, and every opening
\* tag but those of the line break and the rule, which have no closing tag
UnmatchedDocs ==
    {pre \o <<t, T_hello>> :
        pre \in {<<>>, <<T_x>>},
        t \in {Close(n) : n \in AllNames} \cup {Open(n) : n \in AllNames \ {n_br, n_hr}}}

InitParse(f, d, st) ==
    /\ fam = f
    /\ doc = d
    /\ html = Render(d)
    /\ state0 = st
    /\ pc = "loop"
    /\ stack = <<Frame(Render(d), st, "Theme.text", 1)>>
    /\ ctxs = <<NewContext("null")>>
    /\ fmc = NoFmc
    /\ attUrl = None
    /\ result = <<>>
    /\ images = <<>>
    /\ decoded = <<>>
    /\ ThemeAtLoad /\ ColorIdle /\ ExtensionIdle /\ CacheAtLoad

Init ==
    \/ \E d \in FuzzDocs : InitParse("fuzz", d, initialState)
    \/ \E d \in EntityDocs : InitParse("entity", d, initialState)
    \/ \E d \in PlainDocs, st \in StyleStates : InitParse("plain", d, st)
    \/ \E d \in StyleDocs : InitParse("style", d, initialState)
    \/ \E d \in ListDocs : InitParse("list", d, initialState)
    \/ \E d \in UnmatchedDocs : InitParse("unmatched", d, initialState)
    \/ \E d \in LinkDocs : InitParse("link", d, initialState)

Next == Iterate \/ FmcIterate \/ Return

Spec == Init /\ [][Next]_vars

InitMedia == \E d \in MediaDocs : InitParse("media", d, initialState)

NextMedia == Iterate \/ FmcIterate \/ Return \/ Extract

SpecMedia == InitMedia /\ [][NextMedia]_vars

InitDecode ==
    \E d \in DecodeDocs :
        /\ fam = "decode"
        /\ doc = d
        /\ html = Render(d)
        /\ state0 = initialState
        /\ pc = "decode"
        /\ stack = <<>>
        /\ ctxs = <<>>
        /\ fmc = NoFmc
        /\ attUrl = None
        /\ result = <<>>
        /\ images = <<>>
        /\ decoded = <<>>
        /\ ThemeAtLoad /\ ColorIdle /\ ExtensionIdle /\ CacheAtLoad

NextDecode == Decode

SpecDecode == InitDecode /\ [][NextDecode]_vars

\* no markup is being parsed
ParseIdle ==
    /\ fam = "none"
    /\ doc = <<>>
    /\ html = <<>>
    /\ state0 = initialState
    /\ pc = "idle"
    /\ stack = <<>>
    /\ ctxs = <<>>
    /\ fmc = NoFmc
    /\ attUrl = None
    /\ result = <<>>
    /\ images = <<>>
    /\ decoded = <<>>

InitTheme == ParseIdle /\ ThemeAtLoad /\ ColorIdle /\ ExtensionIdle /\ CacheAtLoad

NextTheme == DetectPalette \/ GetPaletteResolves \/ GetPaletteFails \/ ReadTheme

SpecTheme == InitTheme /\ [][NextTheme]_vars

InitColor ==
    /\ ParseIdle /\ ThemeAtLoad /\ ExtensionIdle /\ CacheAtLoad
    /\ \E c \in RgbCalls \cup HexCalls \cup DerivedCalls : cin = Some(c)
    /\ cout = <<>>

NextColor ==
    \/ ApplyRgbToHex
    \/ ApplyHexToRgb
    \/ ApplyLighten
    \/ ApplyDarken
    \/ ApplyMix
    \/ ApplyIsLightBackground

SpecColor == InitColor /\ [][NextColor]_vars

InitExtension == ParseIdle /\ ThemeAtLoad /\ ColorIdle /\ ExtensionIdle /\ CacheAtLoad

NextExtension ==
    \/ \E b \in Boards :
          \/ HandleHatchetClick(b)
          \/ FormSubmit(b)
          \/ EditBoard(b)
          \/ SetBoardPath(b)
          \/ DeleteBoard(b)
          \/ DeleteBoardPath(b)
    \/ \E i \in 1..MaxHandlers :
          \/ ClickContinues(i)
          \/ PromptSaves(i)
          \/ PromptCancels(i)
          \/ ClickNavigates(i)
          \/ FormContinues(i)
          \/ EditContinues(i)
          \/ SetBoardPathContinues(i)
          \/ DeleteContinues(i)
          \/ DeleteBoardPathContinues(i)

SpecExtension == InitExtension /\ [][NextExtension]_vars

InitCache == ParseIdle /\ ThemeAtLoad /\ ColorIdle /\ ExtensionIdle /\ CacheAtLoad

NextCache ==
    \/ \E n \in Numbers :
          \/ FetchCardDetails(n)
          \/ FetchPRDetails(n)
    \/ ClearCardCache
    \/ ClearPRCache

SpecCache == InitCache /\ [][NextCache]_vars

(***************************************************************************)
(* What the claims speak of                                                *)
(***************************************************************************)

\* a node made from document text: the two pushes that pass `attributes`
IsTextRun(node) == node.attributes # None

TextRuns(nodes) == SelectSeq(nodes, IsTextRun)

\* a list item's label: a node of the accent colour that is no text run
IsLabel(node) == node.attributes = None /\ node.fg = "Theme.accent"

TextsOf(nodes) == [k \in 1..Len(nodes) |-> nodes[k].text]

RunsOf(nodes) ==
    [k \in 1..Len(nodes) |-> [text |-> nodes[k].text, attributes |-> nodes[k].attributes]]

IsTextToken(t) == t.k = "text"

\* the six escapes of the input dialect and the character each stands for
Escapes ==
    {<<E_lt, "<">>, <<E_gt, ">">>, <<E_amp, "&">>, <<E_quot, "\"">>,
     <<E_apos, "'">>, <<E_nbsp, " ">>}

(***************************************************************************)
(* C1: parseHtmlContent terminates on every input: every iteration of its  *)
(* main loop strictly shortens the remaining input or leaves the loop,     *)
(* every iteration of findMatchingClose that does not return strictly      *)
(* advances the scan position, and every recursive call is handed a        *)
(* strictly shorter input than its caller had.                             *)
(***************************************************************************)
C1_LoopsAdvance ==
    [][/\ Iterate =>
            \/ stack'[Len(stack)].broke
            \/ Len(stack'[Len(stack)].remaining) < Len(Top.remaining)
       /\ (FmcIterate /\ pc' = "fmc") => fmc'.pos > fmc.pos
       /\ Len(stack') > Len(stack) =>
            Len(stack'[Len(stack')].remaining) < Len(Top.remaining)]_vars

\* findMatchingClose has gone round its loop past a nested same-name open tag
C1_Witness == pc = "fmc" /\ fmc.pos > 0 /\ fmc.depth > 1

(***************************************************************************)
(* C2: every <ol> opens its own numbering scope: its items are labelled    *)
(* 1, 2, ..., n in document order, whatever lists precede or enclose it;   *)
(* the items of a <ul> carry the bullet.                                   *)
(***************************************************************************)
RECURSIVE ExpectedLabels(_, _, _)
\* the labels of the list items of d from token i on; scopes holds, for every list
\* that is open, whether it is ordered and how many of its items have been seen
ExpectedLabels(d, i, scopes) ==
    IF i > Len(d) THEN <<>>
    ELSE LET t == d[i]
             n == Len(scopes)
         IN  IF t.k = "open" /\ t.n \in ListNames
             THEN ExpectedLabels(d, i + 1, Append(scopes, [ordered |-> t.n = n_ol, seen |-> 0]))
             ELSE IF t.k = "close" /\ t.n \in ListNames
             THEN ExpectedLabels(d, i + 1, SubSeq(scopes, 1, n - 1))
             ELSE IF t.k = "open" /\ t.n = n_li
             THEN IF n > 0 /\ scopes[n].ordered
                  THEN <<<<DigitChars[scopes[n].seen + 2], ".", " ">>>>
                       \o ExpectedLabels(d, i + 1, [scopes EXCEPT ![n].seen = @ + 1])
                  ELSE <<BulletText>> \o ExpectedLabels(d, i + 1, scopes)
             ELSE ExpectedLabels(d, i + 1, scopes)

C2_ListNumbering ==
    (fam = "list" /\ pc = "done") =>
        TextsOf(SelectSeq(result, IsLabel)) = ExpectedLabels(doc, 1, <<>>)

\* an ordered list with a second item after an item that holds an ordered list,
\* followed by a sibling ordered list, has been rendered
C2_Witness ==
    /\ fam = "list"
    /\ pc = "done"
    /\ doc = Wrap(n_ol, Items(2, 1, Wrap(n_ol, Items(2, 0, <<>>))))
                \o Wrap(n_ol, Items(1, 0, <<>>))
    /\ TextsOf(SelectSeq(result, IsLabel))
        = << <<"1",".", " ">>, <<"1",".", " ">>, <<"2",".", " ">>, <<"2",".", " ">>,
             <<"1",".", " ">> >>

(***************************************************************************)
(* C3: for well-nested bold/italic/strike tags the attribute set of every  *)
(* emitted text run is exactly the set of the style tags that enclose that *)
(* text in the input.                                                      *)
(***************************************************************************)
StyleOf(n) ==
    IF n \in {n_b, n_strong} THEN "BOLD"
    ELSE IF n \in {n_i, n_em} THEN "ITALIC"
    ELSE "STRIKETHROUGH"

RECURSIVE ExpectedRuns(_, _, _)
\* the text runs of d from token i on, under the open style tags `open`
ExpectedRuns(d, i, open) ==
    IF i > Len(d) THEN <<>>
    ELSE LET t == d[i]
         IN  IF t.k = "open" THEN ExpectedRuns(d, i + 1, Append(open, t.n))
             ELSE IF t.k = "close"
             THEN ExpectedRuns(d, i + 1, SubSeq(open, 1, Len(open) - 1))
             ELSE <<[text |-> t.n,
                     attributes |-> Some({StyleOf(open[k]) : k \in 1..Len(open)})]>>
                  \o ExpectedRuns(d, i + 1, open)

C3_StyleIsEnclosingTags ==
    (fam = "style" /\ pc = "done") => RunsOf(result) = ExpectedRuns(doc, 1, <<>>)

(***************************************************************************)
(* C4: unmatched tags are no-ops for every tag name: a closing tag with no *)
(* matching open, and an opening container/style tag with no matching      *)
(* close, emit no run of their own and leave the style of the text that    *)
(* follows unchanged.                                                      *)
(***************************************************************************)
C4_UnmatchedTagsAreNoOps ==
    (fam = "unmatched" /\ pc = "done") =>
        RunsOf(result) =
            LET texts == SelectSeq(doc, IsTextToken)
            IN  [k \in 1..Len(texts) |->
                    [text |-> texts[k].n, attributes |-> Some(getAttributes(state0))]]

(***************************************************************************)
(* C5, as stated: for every input text T that contains no tag,             *)
(* parseHtmlContent returns exactly one run, whose text is the decoded T   *)
(* and whose attributes are those of the ambient style state.              *)
(***************************************************************************)
AmbientAttributes(st) ==
    {a \in {"BOLD", "ITALIC", "STRIKETHROUGH"} :
        \/ a = "BOLD" /\ st.bold
        \/ a = "ITALIC" /\ st.italic
        \/ a = "STRIKETHROUGH" /\ st.strikethrough}

OneAmbientRun ==
    RunsOf(result) =
        <<[text |-> decodeHtmlEntities(html),
           attributes |-> Some(AmbientAttributes(state0))]>>

C5_TagFreeIsOneRun_AnyText == (fam = "plain" /\ pc = "done") => OneAmbientRun

(***************************************************************************)
(* C5, amended: for every non-empty input text T that contains no tag,     *)
(* parseHtmlContent returns exactly one run, whose text is                 *)
(* decodeHtmlEntities(T) and whose attributes are those of the ambient     *)
(* style state; for the empty text it returns no run.                      *)
(***************************************************************************)
C5_TagFreeIsOneRun ==
    (fam = "plain" /\ pc = "done") =>
        IF html = <<>> THEN result = <<>> ELSE OneAmbientRun

\* a tag-free text with an escape and a line break was parsed under a bold,
\* struck-through code state
C5_Witness ==
    /\ fam = "plain"
    /\ pc = "done"
    /\ state0.bold /\ state0.strikethrough /\ state0.code /\ ~state0.italic
    /\ includes(html, E_amp)
    /\ includes(html, NL)
    /\ Len(result) = 1
    /\ result[1].text # html

(***************************************************************************)
(* C6: no run emitted by parseHtmlContent, for any input, has a text that  *)
(* contains one of the six entity escapes &lt; &gt; &amp; &quot; &#39;     *)
(* &nbsp;.                                                                 *)
(***************************************************************************)
HoldsEscape(text) == \E e \in Escapes : includes(text, e[1])

C6_NoRunHoldsAnEscape ==
    pc = "done" => \A k \in 1..Len(result) : ~HoldsEscape(result[k].text)

\* what does hold: a run made from document text contains none of &quot; &#39;
\* &nbsp;, and contains &lt; &gt; or &amp; only where the input spells that escape
\* with an escaped ampersand; the run of a link target is the raw attribute value
EscapedAmp(e) == E_amp \o Tail(e)

TextRunsAreDecoded ==
    pc = "done" =>
        /\ \A k \in 1..Len(result) :
              IsTextRun(result[k]) =>
                 /\ \A e \in {E_quot, E_apos, E_nbsp} : ~includes(result[k].text, e)
                 /\ \A e \in {E_lt, E_gt, E_amp} :
                       includes(result[k].text, e) => includes(html, EscapedAmp(e))
        /\ fam = "link" =>
              \A i \in 1..Len(doc), v \in HrefValues :
                 doc[i] = OpenA(n_a, HrefAttr(v)) =>
                    result[Len(result)].text = <<"(">> \o v \o <<")">>

(***************************************************************************)
(* C7: decodeHtmlEntities replaces every occurrence of the six escapes by  *)
(* its character once; a character produced by decoding is not decoded a   *)
(* second time.                                                            *)
(***************************************************************************)
RECURSIVE DecodedOnce(_, _)
\* s from offset i on with every escape replaced, in one pass over the input
DecodedOnce(s, i) ==
    IF i >= Len(s) THEN <<>>
    ELSE IF \E e \in Escapes : StartsWithAt(s, e[1], i)
         THEN LET e == CHOOSE e \in Escapes : StartsWithAt(s, e[1], i)
              IN  <<e[2]>> \o DecodedOnce(s, i + Len(e[1]))
         ELSE <<s[i + 1]>> \o DecodedOnce(s, i + 1)

C7_DecodesEachEscapeOnce == pc = "decoded" => decoded = DecodedOnce(html, 0)

(***************************************************************************)
(* What the media claims speak of                                          *)
(***************************************************************************)

\* a URL made absolute: the fixed origin before a value that begins with "/"
Absolute(u) == IF Len(u) > 0 /\ u[1] = "/" THEN Origin \o u ELSE u

IsImageAttachment(t) == t.k = "open" /\ t.n = n_attachment /\ t.ct = ct_image /\ t.url # None

IsAttachment(t) == t.k = "open" /\ t.n = n_attachment /\ t.url # None

IsPlainImage(t) == t.k = "open" /\ t.n = n_img

AbsoluteUrlsOf(tokens) == [k \in 1..Len(tokens) |-> Absolute(tokens[k].url[1])]

UrlsOf(descriptors) == [k \in 1..Len(descriptors) |-> descriptors[k].url]

\* the descriptors of image tags carry the alt text of the tag, those of
\* attachments (which carry no filename here) the alt text "image"
FromPlainImage(d) == d.alt = s_p

FromAttachment(d) == d.alt = s_image

RECURSIVE IsSubsequence(_, _, _, _)
\* a from index i on is a subsequence of b from index j on
IsSubsequence(a, i, b, j) ==
    IF i > Len(a) THEN TRUE
    ELSE IF j > Len(b) THEN FALSE
    ELSE IF a[i] = b[j] THEN IsSubsequence(a, i + 1, b, j + 1)
    ELSE IsSubsequence(a, i, b, j + 1)

(***************************************************************************)
(* C8: the URL of every descriptor returned by extractImageUrls is the     *)
(* url/src attribute made absolute (the origin https://app.fizzy.do before *)
(* a value that begins with "/", any other value unchanged), so none       *)
(* begins with "/"; parseHtmlContent makes the url of a rich attachment    *)
(* absolute by the same rule.                                              *)
(***************************************************************************)
C8_UrlsAreAbsolute ==
    /\ pc = "extracted" =>
          /\ \A k \in 1..Len(images) :
                /\ images[k].url[1] # "/"
                /\ \E i \in 1..Len(doc) :
                      /\ IsImageAttachment(doc[i]) \/ IsPlainImage(doc[i])
                      /\ images[k].url = Absolute(doc[i].url[1])
          /\ UrlsOf(SelectSeq(images, FromAttachment))
                = AbsoluteUrlsOf(SelectSeq(doc, IsImageAttachment))
    /\ attUrl # None =>
          /\ attUrl[1][1] # "/"
          /\ \E i \in 1..Len(doc) :
                IsAttachment(doc[i]) /\ attUrl[1] = Absolute(doc[i].url[1])

\* a relative and an unprefixed URL were extracted, and the parser has made the
\* url of an attachment absolute
C8_Witness ==
    /\ pc = "extracted"
    /\ attUrl = Some(Origin \o <<"/","c">>)
    /\ UrlsOf(images) = <<Origin \o <<"/","c">>, <<"b">>>>

(***************************************************************************)
(* C9, as stated: extractImageUrls returns its descriptors in document     *)
(* order: of two matched tags, attachments and plain images alike, that    *)
(* both produce a descriptor, the descriptor of the earlier tag comes      *)
(* earlier.  (Read on the documents whose tags have distinct targets.)     *)
(***************************************************************************)
TagsOf(url) ==
    {i \in 1..Len(doc) :
        /\ IsImageAttachment(doc[i]) \/ IsPlainImage(doc[i])
        /\ Absolute(doc[i].url[1]) = url}

C9_DocumentOrder ==
    pc = "extracted" =>
        \A i, j \in 1..Len(images) :
            (/\ i < j
             /\ Cardinality(TagsOf(images[i].url)) = 1
             /\ Cardinality(TagsOf(images[j].url)) = 1)
                => \A ti \in TagsOf(images[i].url), tj \in TagsOf(images[j].url) : ti < tj

(***************************************************************************)
(* C9, amended: extractImageUrls returns the descriptors of the image-     *)
(* typed rich attachments first, in document order, and after them the     *)
(* descriptors of the plain image tags, in document order.                 *)
(***************************************************************************)
C9_AttachmentsThenImages ==
    pc = "extracted" =>
        /\ images = SelectSeq(images, FromAttachment) \o SelectSeq(images, FromPlainImage)
        /\ UrlsOf(SelectSeq(images, FromAttachment))
              = AbsoluteUrlsOf(SelectSeq(doc, IsImageAttachment))
        /\ IsSubsequence(UrlsOf(SelectSeq(images, FromPlainImage)), 1,
                         AbsoluteUrlsOf(SelectSeq(doc, IsPlainImage)), 1)

\* a plain image that precedes an attachment in the markup follows it in the result
C9_Witness ==
    /\ pc = "extracted"
    /\ doc = <<Img(<<"b">>), Att(ct_image, Some(<<"/","c">>))>>
    /\ UrlsOf(images) = <<Origin \o <<"/","c">>, <<"b">>>>

(***************************************************************************)
(* C10: a plain image tag whose relative src (one that begins with "/") is *)
(* the target of an extracted rich-attachment descriptor produces no       *)
(* descriptor of its own, so that target has exactly the descriptors of    *)
(* its attachments: one, for an attachment that wraps the image.           *)
(***************************************************************************)
C10_CoveredImageIsSkipped ==
    pc = "extracted" =>
        \A i \in 1..Len(doc) :
            (/\ IsPlainImage(doc[i])
             /\ doc[i].url[1][1] = "/"
             /\ \E k \in 1..Len(images) :
                   FromAttachment(images[k]) /\ images[k].url = Absolute(doc[i].url[1]))
                => LET target == Absolute(doc[i].url[1])
                       HasTarget(d) == d.url = target
                       IsAttachmentOfTarget(t) ==
                           IsImageAttachment(t) /\ Absolute(t.url[1]) = target
                   IN  /\ \A k \in 1..Len(images) :
                             HasTarget(images[k]) => FromAttachment(images[k])
                       /\ Len(SelectSeq(images, HasTarget))
                             = Len(SelectSeq(doc, IsAttachmentOfTarget))

\* an attachment that wraps a plain image of the same target gave one descriptor
C10_Witness ==
    /\ pc = "extracted"
    /\ doc = <<Att(ct_image, Some(<<"/","b">>)), Img(<<"/","b">>), Close(n_attachment)>>
    /\ Len(images) = 1
    /\ images[1].url = Origin \o <<"/","b">>

(***************************************************************************)
(* The palette state: the three values detectPalette may write.            *)
(***************************************************************************)
PaletteState == <<palette, defaultForeground, defaultBackground>>

(***************************************************************************)
(* C11: detectPalette never rejects or throws.  The promise of every call  *)
(* that has ended is fulfilled, and the end of a call whose terminal query *)
(* threw, rejected or gave no result leaves the palette, the default       *)
(* foreground and the default background as they were.                     *)
(***************************************************************************)
C11_DetectionNeverFails ==
    [][/\ \A k \in 1..Len(settled') : settled'[k].promise = "fulfilled"
       /\ (/\ Len(settled') = Len(settled) + 1
           /\ settled'[Len(settled')].outcome \in {"none", "rejects", "throws"})
             => PaletteState' = PaletteState]_vars

\* the first call ended on a query that threw or rejected: the fallback is in place
C11_Witness ==
    /\ Len(settled) = 1
    /\ settled[1].outcome \in {"rejects", "throws"}
    /\ settled[1].promise = "fulfilled"
    /\ PaletteState = <<FALLBACK_PALETTE, White, Black>>

(***************************************************************************)
(* C12: the palette state is written at most once after load: only the     *)
(* first call of detectPalette to end may change it.                       *)
(***************************************************************************)
C12_WrittenAtMostOnce ==
    [][PaletteState' # PaletteState => Len(settled) = 0]_vars

(***************************************************************************)
(* The catalog as the specification defines it, over a given palette,      *)
(* default foreground and default background.                              *)
(***************************************************************************)
PaletteColor(pal, i) == IF pal[i + 1] # <<>> THEN pal[i + 1] ELSE FALLBACK_PALETTE[i + 1]

\* darker on a light background, lighter on a dark one
Shade(light, hex, percent) == IF light THEN darken(hex, percent) ELSE lighten(hex, percent)

ExpectedTheme(pal, fg, bg, light) ==
    [terminalBackground |-> bg,
     terminalForeground |-> fg,
     background |-> bg,
     backgroundSubtle |-> Shade(light, bg, 5),
     backgroundMuted |-> Shade(light, bg, 12),
     text |-> fg,
     textBright |-> Shade(light, fg, 10),
     muted |-> mix(fg, bg, 40),
     primary |-> PaletteColor(pal, 5),
     primaryBright |-> PaletteColor(pal, 13),
     secondary |-> PaletteColor(pal, 4),
     secondaryBright |-> PaletteColor(pal, 12),
     accent |-> PaletteColor(pal, 6),
     accentBright |-> PaletteColor(pal, 14),
     success |-> PaletteColor(pal, 2),
     warning |-> PaletteColor(pal, 3),
     error |-> PaletteColor(pal, 1),
     selected |-> Shade(light, bg, 15),
     selectedText |-> fg,
     border |-> mix(fg, bg, 60),
     borderFocused |-> PaletteColor(pal, 5)]

TableKeys == DOMAIN FIZZY_COLORS_LIGHT

\* the keys getFizzyColor is documented for: a key of the tables, or none
KnownCssVars == {None} \cup {Some(k) : k \in TableKeys}

ExpectedFizzy(light, c) ==
    LET table == IF light THEN FIZZY_COLORS_LIGHT ELSE FIZZY_COLORS_DARK
    IN  IF c = None THEN table["var(--color-card-default)"] ELSE table[c[1]]

\* a reading r shows the catalog of the state (pal, fg, bg)
ReadingIsOf(r, pal, fg, bg) ==
    LET light == isLightBackground(bg)
    IN  /\ r.theme = ExpectedTheme(pal, fg, bg, light)
        /\ r.isLight = light
        /\ \A i \in 0..15 : r.color[i] = PaletteColor(pal, i)
        /\ \A c \in KnownCssVars :
              /\ r.fizzy[c] = ExpectedFizzy(light, c)
              /\ r.dimmed[c] = mix(ExpectedFizzy(light, c), bg, 50)

(***************************************************************************)
(* C13: Theme colours are never cached.  Every read of the catalog, the    *)
(* first one after detectPalette has written the state included, returns   *)
(* the values computed from the palette, the default foreground and the    *)
(* default background of the moment of the read.                           *)
(***************************************************************************)
C13_ReadsAreNeverCached ==
    [][seen' # seen =>
          /\ seen' # None
          /\ ReadingIsOf(seen'[1], palette', defaultForeground', defaultBackground')]_vars

\* a read after a detection that wrote a palette, a foreground and a light
\* background: nothing in it is of the state at load
C13_Witness ==
    /\ seen # None
    /\ \E k \in 1..Len(settled) : settled[k].outcome = "result"
    /\ palette # FALLBACK_PALETTE
    /\ defaultForeground = Black
    /\ defaultBackground = White
    /\ seen[1].theme.muted = <<"#","6","6","6","6","6","6">>
    /\ seen[1].theme.selected = <<"#","d","9","d","9","d","9">>
    /\ seen[1].fizzy[None] = <<"#","2","b","7","d","d","e">>
    /\ seen[1].color[0] = Gray

(***************************************************************************)
(* C14: in every reachable state (before detection, while it is pending,   *)
(* after it succeeded with any response, after it failed) every colour     *)
(* accessor of the Theme catalog and color(i) for i in 0..15 returns a     *)
(* defined, non-empty colour value.                                        *)
(***************************************************************************)
C14_AccessorsAlwaysAnswer ==
    LET theme == Theme
    IN  /\ \A name \in DOMAIN theme : theme[name] \in Seq(STRING) /\ theme[name] # <<>>
        /\ \A i \in 0..15 : color(i) \in Seq(STRING) /\ color(i) # <<>>

\* a detection is pending after another one wrote a palette with a null slot and an
\* empty slot: both slots answer with the fallback colour
C14_Witness ==
    /\ awaiting > 0
    /\ palette[6] = FALLBACK_PALETTE[6]
    /\ palette[7] = <<>>
    /\ color(6) = FALLBACK_PALETTE[7]
    /\ Theme_accent = <<"#","5","f","d","7","d","7">>

(***************************************************************************)
(* Luminance, in exact arithmetic: (0.299R + 0.587G + 0.114B)/255 > 0.5,   *)
(* with both sides multiplied by 255000.                                   *)
(***************************************************************************)
LuminanceAboveHalf(hex) ==
    LET c == hexToRgb(hex)
    IN  299 * c.r + 587 * c.g + 114 * c.b > 127500

\* every selection that depends on the theme being light follows `light`
SelectionsFollow(light) ==
    /\ \A c \in KnownCssVars : getFizzyColor(c) = ExpectedFizzy(light, c)
    /\ Theme_backgroundSubtle = Shade(light, defaultBackground, 5)
    /\ Theme_backgroundMuted = Shade(light, defaultBackground, 12)
    /\ Theme_textBright = Shade(light, defaultForeground, 10)
    /\ Theme_selected = Shade(light, defaultBackground, 15)

C16_UnknownKeysGetTheDefault ==
    /\ DOMAIN FIZZY_COLORS_LIGHT = DOMAIN FIZZY_COLORS_DARK
    /\ Cardinality(DOMAIN FIZZY_COLORS_LIGHT) = 10
    /\ seen # None =>
          \A c \in CssVars :
              (c = None \/ c[1] \notin TableKeys)
                  => seen[1].fizzy[c] = seen[1].fizzy[Some("var(--color-card-default)")]

(***************************************************************************)
(* Rounding to the nearest integer: k is the integer nearest to n/Scale,   *)
(* the upper one when two are as near.                                     *)
(***************************************************************************)
IsNearest(k, n) == k * Scale - n <= Scale \div 2 /\ n - k * Scale < Scale \div 2

\* hex is the colour a + (b - a) * percent / 100, channel by channel, of the
\* colours a and b, written as # and six lower-case digits
IsMixOf(hex, a, b, percent) ==
    LET c  == hexToRgb(hex)
        c1 == hexToRgb(a)
        c2 == hexToRgb(b)
    IN  /\ hex = Spell(<<c.r, c.g, c.b>>, "lower", TRUE)
        /\ IsNearest(c.r, c1.r * Scale + (c2.r - c1.r) * percent)
        /\ IsNearest(c.g, c1.g * Scale + (c2.g - c1.g) * percent)
        /\ IsNearest(c.b, c1.b * Scale + (c2.b - c1.b) * percent)

(***************************************************************************)
(* C17: derived colours equal their defining formula over the current      *)
(* state.  Theme.muted is mix(defaultForeground, defaultBackground, 40),   *)
(* which is #999999 for foreground #ffffff and background #000000, and     *)
(* getFizzyColorDimmed(c) is mix(getFizzyColor(c), Theme.background, 50)   *)
(* for every key c; mix rounds each channel of a + (b-a)*p/100 to the      *)
(* nearest integer.                                                        *)
(***************************************************************************)
C17_DerivedColoursFollowFormula ==
    seen # None =>
        LET read == seen[1]
        IN  /\ IsMixOf(read.theme.muted, read.theme.text, read.theme.background, 40)
            /\ (read.theme.text = White /\ read.theme.background = Black)
                  => read.theme.muted = <<"#","9","9","9","9","9","9">>
            /\ \A c \in CssVars :
                  IsMixOf(read.dimmed[c], read.fizzy[c], read.theme.background, 50)

\* a read at load: muted is #999999, and the default card colour #5a9eed dimmed
\* toward black has the channel 237/2 rounded up to 119
C17_Witness ==
    /\ seen # None
    /\ seen[1].theme.text = White
    /\ seen[1].theme.background = Black
    /\ seen[1].theme.muted = <<"#","9","9","9","9","9","9">>
    /\ seen[1].fizzy[None] = <<"#","5","a","9","e","e","d">>
    /\ seen[1].dimmed[None] = <<"#","2","d","4","f","7","7">>

(***************************************************************************)
(* Hex strings, as the specification speaks of them.                       *)
(***************************************************************************)
LowerHexDigits == {"0","1","2","3","4","5","6","7","8","9","a","b","c","d","e","f"}

\* h written in lower case with a leading #
LowerWithHash(h) ==
    LET lower == [i \in 1..Len(h) |-> LowerChar(h[i])]
    IN  IF Len(h) > 0 /\ h[1] = "#" THEN lower ELSE <<"#">> \o lower

\* # and six lower-case hexadecimal digits
IsWellFormedHex(h) ==
    /\ Len(h) = 7
    /\ h[1] = "#"
    /\ \A i \in 2..7 : h[i] \in LowerHexDigits

(***************************************************************************)
(* C18: hexToRgb and rgbToHex round-trip exactly.  For integers r, g, b in *)
(* 0..255, hexToRgb(rgbToHex(r, g, b)) = (r, g, b); for a well-formed      *)
(* 6-digit hex string h, in any case and with or without the leading #,    *)
(* rgbToHex(hexToRgb(h)) is h in lower case with a leading #.              *)
(***************************************************************************)
C18_HexRgbRoundTrip ==
    (cin # None /\ Len(cout) = 2) =>
        /\ cin[1].op = "rgbToHex" =>
              /\ IsWellFormedHex(cout[1])
              /\ cout[2] = [r |-> cin[1].rgb[1], g |-> cin[1].rgb[2], b |-> cin[1].rgb[3]]
        /\ (cin[1].op = "hexToRgb" /\ cin[1].wellFormed) =>
              /\ cout[1] = [r |-> cin[1].rgb[1], g |-> cin[1].rgb[2], b |-> cin[1].rgb[3]]
              /\ cout[2] = LowerWithHash(cin[1].hex)

\* channels that need a leading zero came back through #0009ff
C18_Witness ==
    /\ cin # None
    /\ cin[1].op = "rgbToHex"
    /\ cin[1].rgb = <<0, 9, 255>>
    /\ cout = <<<<"#","0","0","0","9","f","f">>, [r |-> 0, g |-> 9, b |-> 255]>>

(***************************************************************************)
(* C19: a malformed hex colour string never makes a colour operation fail. *)
(* hexToRgb returns (0,0,0) for it, and lighten, darken, mix and           *)
(* isLightBackground treat it as black and return a well-formed result.    *)
(***************************************************************************)
C19_MalformedHexIsBlack ==
    (cin # None /\ Len(cout) >= 1) =>
        LET c     == cin[1]
            AsRead(h) == IF h \in MalformedHex THEN Black ELSE h
            malformed == c.hex \in MalformedHex \/ (c.op = "mix" /\ c.hex2 \in MalformedHex)
        IN  malformed =>
              /\ c.op = "hexToRgb" => cout[1] = [r |-> 0, g |-> 0, b |-> 0]
              /\ c.op = "lighten" =>
                    IsWellFormedHex(cout[1]) /\ cout[1] = lighten(Black, c.percent)
              /\ c.op = "darken" => cout[1] = Black
              /\ c.op = "mix" =>
                    /\ IsWellFormedHex(cout[1])
                    /\ cout[1] = mix(AsRead(c.hex), AsRead(c.hex2), c.percent)
              /\ c.op = "isLightBackground" => cout[1] = FALSE

\* the 3-digit form of white mixed half with white: read as black, it gives gray
C19_Witness ==
    /\ cin # None
    /\ cin[1].op = "mix"
    /\ cin[1].hex = <<"#","f","f","f">>
    /\ cin[1].hex2 = White
    /\ cin[1].percent = 50
    /\ cout = <<<<"#","8","0","8","0","8","0">>>>

(***************************************************************************)
(* The address the Hatchet button is to open for card 42 and the saved     *)
(* path "/a b": the path URL-encoded, then the two flags.                  *)
(***************************************************************************)
SavedPath == <<"/","a"," ","b">>

UrlOfSavedPath ==
    <<"h","a","t","c","h","e","t",":","/","/","c","a","r","d","/","4","2","?",
      "p","a","t","h","=","%","2","F","a","+","b",
      "&","l","a","u","n","c","h","-","o","p","e","n","c","o","d","e","=","t","r","u","e",
      "&","w","i","t","h","-","c","o","n","t","e","x","t","=","t","r","u","e">>

\* handler i is a click that has read the storage and found a path saved for its
\* board, by whichever way it was saved
ClickFindsSavedPath(i) ==
    /\ Running(i, "click", "get")
    /\ handlers[i].boardPaths[handlers[i].board] # None
    /\ handlers[i].boardPaths[handlers[i].board][1].path = SavedPath

(***************************************************************************)
(* C20: once a project path P has been saved for a board, by the prompt of *)
(* the content script, the popup's add or edit form, or a SET_BOARD_PATH   *)
(* message, a later click of the Hatchet button on a card n of that board  *)
(* does not prompt again and navigates to                                  *)
(* hatchet://card/n?path=P&launch-opencode=true&with-context=true with P   *)
(* URL-encoded.                                                            *)
(***************************************************************************)
C20_SavedPathIsOpened ==
    [][\A i \in 1..Len(handlers) :
          ClickFindsSavedPath(i) =>
              /\ handlers' = Finished(i) => locationHref' = Some(UrlOfSavedPath)
              /\ ~(/\ Len(handlers') = Len(handlers)
                   /\ handlers'[i].step = "prompt")]_vars

(***************************************************************************)
(* Documents of the structure families: unknown tags as containers, tags   *)
(* whose names begin with the name of the tag around them, and whitespace  *)
(* before a tag.                                                           *)
(***************************************************************************)
n_u == <<"u">>

\* the tags whose body gets a style state or a foreground of its own
ScopeNames == {n_b, n_i, n_s, n_code, n_h1, n_blockquote}

\* an unknown tag around the items of a list, after `n` items of the list itself,
\* and an unknown tag around a text inside a styling tag
UnknownDocs ==
    {Wrap(k, Items(n, 0, <<>>) \o Wrap(n_u, Items(m, 0, <<>>))) :
        k \in ListNames, n \in 0..1, m \in 1..MaxItems}
        \cup {Wrap(k, Wrap(n_u, Items(m, 0, <<>>)) \o Items(1, 0, <<>>)) :
                k \in ListNames, m \in 1..MaxItems}
        \cup {Wrap(s, Wrap(n_u, <<T_x>>)) : s \in ScopeNames}

T_y == Txt(<<"y">>)

\* a tag around a text, a second tag and a text; the second tag's name begins with
\* the first one's in all but the last three documents
CrossDocs ==
    {Wrap(n_b, <<T_x, Open(n_br), T_y>>),
     Wrap(n_b, <<T_x>> \o Wrap(n_blockquote, <<T_y>>)),
     Wrap(n_i, <<T_x, Open(n_img), T_y>>),
     Wrap(n_p, <<T_x>> \o Wrap(n_pre, <<T_y>>)),
     Wrap(n_s, <<T_x>> \o Wrap(n_span, <<T_y>>)),
     Wrap(n_b, <<T_x>> \o Wrap(n_b, <<T_y>>)),
     Wrap(n_b, <<T_x>> \o Wrap(n_i, <<T_y>>)),
     Wrap(n_i, <<T_x, Open(n_br), T_y>>)}

\* texts before a tag: whitespace only, with and without a line break, and words
\* with whitespace before, between and after them
SpaceTexts ==
    {<<" ">>, <<" ", " ">>, <<"\t">>, <<"\n">>, <<" ", "\n", " ">>, E_nbsp,
     <<"a", " ", " ", "b">>, <<"a", " ", "\n", "\t", "b">>, <<" ", "a", " ">>,
     <<"a">>}

CodeStates == {initialState, [initialState EXCEPT !.code = TRUE]}

\* a text, a line break tag and, in some, a second text and a second tag
SpaceDocs ==
    {<<Txt(w), Open(n_br)>> : w \in SpaceTexts}
        \cup {<<Txt(w), Open(n_br), Txt(v), Open(n_br)>> :
                w \in {<<"a">>, <<" ">>}, v \in {<<" ">>, <<"\n">>, <<" ", "b", " ", " ">>}}

InitStructure ==
    \/ \E d \in UnknownDocs : InitParse("unknown", d, initialState)
    \/ \E d \in CrossDocs : InitParse("cross", d, initialState)
    \/ \E d \in SpaceDocs, st \in CodeStates : InitParse("space", d, st)

NextStructure == Iterate \/ FmcIterate \/ Return

SpecStructure == InitStructure /\ [][NextStructure]_vars

(***************************************************************************)
(* C21: an unknown tag is a transparent container: its body is parsed with *)
(* the style state, the foreground colour and the list context of its      *)
(* surroundings, so the text inside an unknown tag inside a styling tag is *)
(* the run that the styling tag gives its body, and the <li> items inside  *)
(* an unknown tag inside a list are labelled from that list: numbered on   *)
(* from the <ol>'s counter, bulleted in a <ul>.                            *)
(***************************************************************************)
\* the run of the text x directly inside the tag `tagName` at the top of a document
RunInside(tagName) ==
    LET state == ChildState(tagName, initialState)
    IN  TextNode(<<"x">>,
                 IF state.code THEN CodeFg ELSE ChildFg(tagName, "Theme.text"), state)

C21_UnknownTagIsTransparent ==
    (fam = "unknown" /\ pc = "done") =>
        IF doc[1].n \in ListNames
        THEN TextsOf(SelectSeq(result, IsLabel)) = ExpectedLabels(doc, 1, <<>>)
        ELSE TextRuns(result) = <<RunInside(doc[1].n)>>

\* Style state and foreground do reach the body of an unknown tag.
UnknownTagKeepsStyle ==
    (fam = "unknown" /\ pc = "done" /\ doc[1].n \notin ListNames) =>
        TextRuns(result) = <<RunInside(doc[1].n)>>

(***************************************************************************)
(* C23: findMatchingClose returns the position of the close tag that       *)
(* matches the open tag just consumed by nesting depth: only nested opens  *)
(* of the same tag name raise the depth, opens of another tag (<br> or     *)
(* <blockquote> inside <b>, <img> inside <i>, <pre> inside <p>) leave it   *)
(* alone.  For a document that is one tag around its body the scan for the *)
(* first tag so returns the length of the body, the body is parsed on its  *)
(* own, and <b>x<br>y</b> renders both x and y bold.                       *)
(***************************************************************************)
\* the body of a document that is one tag around it
BodyOf(d) == SubSeq(d, 2, Len(d) - 1)

\* findMatchingClose returns to the iteration that consumed the document's first tag
FirstScanReturns ==
    /\ pc = "fmc"
    /\ Len(stack) = 1
    /\ fmc.html = Render(Tail(doc))
    /\ pc' = "loop"

BoldAroundBreak == Wrap(n_b, <<T_x, Open(n_br), T_y>>)

C23_CloseMatchesByDepth ==
    [][fam = "cross" =>
        /\ FirstScanReturns =>
            /\ Len(stack') = 2
            /\ stack'[2].remaining = Render(BodyOf(doc))
        /\ (pc' = "done" /\ doc = BoldAroundBreak) =>
            RunsOf(TextRuns(result')) =
                <<[text |-> <<"x">>, attributes |-> Some({"BOLD"})],
                  [text |-> <<"y">>, attributes |-> Some({"BOLD"})]>>]_vars

\* The scan does match by depth when the tags inside have the same name or a name
\* that does not begin with it.
SameNameMatchesByDepth ==
    [][(/\ fam = "cross"
        /\ doc \in {Wrap(n_b, <<T_x>> \o Wrap(n_b, <<T_y>>)),
                    Wrap(n_b, <<T_x>> \o Wrap(n_i, <<T_y>>)),
                    Wrap(n_i, <<T_x, Open(n_br), T_y>>)}
        /\ FirstScanReturns)
        => (Len(stack') = 2 /\ stack'[2].remaining = Render(BodyOf(doc)))]_vars

(***************************************************************************)
(* C24: at every iteration of the parser loop the rest of the input is     *)
(* emitted as one raw run (the loop is left by `break`) only when no tag   *)
(* start exists anywhere in the remaining input; a literal "<" that starts *)
(* no tag, before a later well-formed tag, does not stop that tag from     *)
(* being parsed.                                                           *)
(***************************************************************************)
\* a tag starts somewhere in s: "<", an optional "/", a name, and a ">" after it
HasTagStart(s) ==
    \E i \in 0..(Len(s) - 1) :
        /\ s[i + 1] = "<"
        /\ tagMatch(sliceFrom(s, i)) # None

C24_RawRunOnlyWithoutTags ==
    [][(Iterate /\ fam = "fuzz" /\ stack'[Len(stack)].broke)
        => ~HasTagStart(Top.remaining)]_vars

(***************************************************************************)
(* C25, as stated: text that precedes a tag is emitted as a run if and     *)
(* only if it is not purely whitespace; outside a code-styled context      *)
(* every maximal whitespace sequence of the emitted text is collapsed to   *)
(* one space, inside a code-styled context the text is emitted with its    *)
(* whitespace unchanged.                                                   *)
(***************************************************************************)
PurelyWhitespace(s) == \A i \in 1..Len(s) : s[i] \in Whitespace

RECURSIVE Squeeze(_)
\* s with every maximal sequence of whitespace replaced by one space
Squeeze(s) ==
    IF s = <<>> THEN <<>>
    ELSE IF Head(s) \notin Whitespace THEN <<Head(s)>> \o Squeeze(Tail(s))
    ELSE IF Len(s) > 1 /\ s[2] \in Whitespace THEN Squeeze(Tail(s))
    ELSE <<" ">> \o Squeeze(Tail(s))

\* the run of the text `text` before a tag at the top of a document
RunBefore(text) ==
    TextNode(IF state0.code THEN text ELSE Squeeze(text),
             IF state0.code THEN CodeFg ELSE "Theme.text", state0)

NotPurelyWhitespace(text) == ~PurelyWhitespace(text)

NotFormattingWhitespace(text) ==
    /\ text # <<>>
    /\ ~(PurelyWhitespace(text) /\ \E i \in 1..Len(text) : text[i] = "\n")

RECURSIVE ExpectedBefore(_, _, _)
\* the nodes of a document of texts and line break tags from token i on, when
\* whitespace alone keeps a text from being emitted (formatting is FALSE) or only
\* whitespace with a line break does (formatting is TRUE)
ExpectedBefore(d, i, formatting) ==
    IF i > Len(d) THEN <<>>
    ELSE IF d[i].k = "text"
    THEN LET text == decodeHtmlEntities(d[i].n)
             emitted == IF formatting THEN NotFormattingWhitespace(text)
                        ELSE NotPurelyWhitespace(text)
         IN  (IF emitted THEN <<RunBefore(text)>> ELSE <<>>)
                \o ExpectedBefore(d, i + 1, formatting)
    ELSE <<PlainNode(NL, "Theme.text")>> \o ExpectedBefore(d, i + 1, formatting)

C25_EmittedUnlessWhitespace ==
    (fam = "space" /\ pc = "done") =>
        result = ExpectedBefore(doc, 1, FALSE)

(***************************************************************************)
(* C25, amended: text that precedes a tag is emitted as a run if and only  *)
(* if it is not empty and is not whitespace that holds a line break: text  *)
(* of spaces and tabs alone is emitted.  Outside a code-styled context     *)
(* every maximal whitespace sequence of the emitted text is collapsed to   *)
(* one space, inside a code-styled context the text is emitted with its    *)
(* whitespace unchanged.                                                   *)
(***************************************************************************)
C25_EmittedUnlessFormatting ==
    (fam = "space" /\ pc = "done") =>
        result = ExpectedBefore(doc, 1, TRUE)

\* outside a code context a lone space and a text with a doubled space, each before
\* a tag, were emitted as the runs " " and " b "
C25_Witness ==
    /\ fam = "space"
    /\ pc = "done"
    /\ ~state0.code
    /\ doc = <<Txt(<<" ">>), Open(n_br), Txt(<<" ", "b", " ", " ">>), Open(n_br)>>
    /\ TextsOf(TextRuns(result)) = << <<" ">>, <<" ", "b", " ">> >>

(***************************************************************************)
(* Documents of the attachment family: one action-text-attachment tag with *)
(* or without each of its attributes, with or without its closing tag.     *)
(***************************************************************************)
OptionalAttr(key, v) == IF v = None THEN <<>> ELSE Quoted(key, v[1])

\* an action-text-attachment tag; every argument is an option, and the fields
\* repeat what the attributes say
Attachment(ct, url, caption, filename) ==
    [k |-> "open", n |-> n_attachment,
     a |-> OptionalAttr(k_contentType, ct) \o OptionalAttr(k_url, url)
            \o OptionalAttr(k_caption, caption) \o OptionalAttr(k_filename, filename),
     url |-> url, ct |-> ct, caption |-> caption, filename |-> filename]

ct_imageUpper == <<"I","M","A","G","E","/","p">>
ct_other      == <<"t","/","p">>

\* image types in both cases and without a subtype, a video type, another type, none
ContentTypes ==
    {None, Some(ct_image), Some(ct_imageUpper), Some(s_imageSlash), Some(ct_video),
     Some(ct_other)}

s_c == <<"c">>
s_f == <<"f">>

AttachmentTokens ==
    {Attachment(ct, url, caption, filename) :
        ct \in ContentTypes,
        url \in {None, Some(<<"/","b">>), Some(<<"b">>)},
        caption \in {None, Some(s_c)},
        filename \in {None, Some(s_f)}}

AttachmentDocs ==
    {<<t>> : t \in AttachmentTokens} \cup {<<t, Close(n_attachment)>> : t \in AttachmentTokens}

InitAttachment == \E d \in AttachmentDocs : InitParse("attachment", d, initialState)

NextAttachment == Iterate \/ FmcIterate \/ Return \/ Extract

SpecAttachment == InitAttachment /\ [][NextAttachment]_vars

(***************************************************************************)
(* C22, as stated: for every rich attachment pseudo-tag parseHtmlContent   *)
(* follows the type policy: an image-typed entry emits no run at all, and  *)
(* every other entry (video-typed, any other content type, absent content  *)
(* type) emits an icon run followed by a bracketed label run whose label   *)
(* is the caption, else the filename, else "attachment".                   *)
(***************************************************************************)
\* the content type begins with image/ (video/), in these letters
HasType(t, prefix) ==
    /\ t.ct # None
    /\ Len(t.ct[1]) >= Len(prefix)
    /\ SubSeq(t.ct[1], 1, Len(prefix)) = prefix

LabelOf(t) ==
    IF t.caption # None THEN t.caption[1]
    ELSE IF t.filename # None THEN t.filename[1]
    ELSE <<"a","t","t","a","c","h","m","e","n","t">>

IconOf(t) == IF HasType(t, <<"v","i","d","e","o","/">>) THEN VideoIcon ELSE ClipIcon

IsNewline(node) == node.text = NL

NotNewline(node) == ~IsNewline(node)

IconAndLabel(t) ==
    <<PlainNode(IconOf(t), "Theme.accent"),
      PlainNode(<<"[">> \o LabelOf(t) \o <<"]">>, "Theme.secondary")>>

C22_TypePolicy ==
    (fam = "attachment" /\ pc \in {"done", "extracted"}) =>
        SelectSeq(result, NotNewline) =
            IF HasType(doc[1], <<"i","m","a","g","e","/">>) THEN <<>>
            ELSE IconAndLabel(doc[1])

(***************************************************************************)
(* C22, amended: a rich attachment pseudo-tag that has its closing tag and *)
(* carries a url follows the type policy: an entry whose content type      *)
(* begins with "image/" in lower case emits no run, every other entry      *)
(* emits a newline run, an icon run (the video icon for a content type     *)
(* that begins with "video/", the paperclip otherwise), a bracketed label  *)
(* run whose label is the caption, else the filename, else "attachment",   *)
(* and a newline run.  An entry without a url or without its closing tag   *)
(* emits no run, whatever its type.                                        *)
(***************************************************************************)
C22_TypePolicyOfLinkedEntries ==
    (fam = "attachment" /\ pc \in {"done", "extracted"}) =>
        result =
            IF /\ Len(doc) = 2
               /\ doc[1].url # None
               /\ ~HasType(doc[1], <<"i","m","a","g","e","/">>)
            THEN <<PlainNode(NL, "Theme.text")>> \o IconAndLabel(doc[1])
                    \o <<PlainNode(NL, "Theme.text")>>
            ELSE <<>>

\* a closed entry of another type with a url, a caption and a filename was
\* rendered with the paperclip and the caption
C22_Witness ==
    /\ fam = "attachment"
    /\ pc = "done"
    /\ doc = <<Attachment(Some(ct_other), Some(<<"/","b">>), Some(s_c), Some(s_f)),
               Close(n_attachment)>>
    /\ TextsOf(result) = <<NL, ClipIcon, <<"[", "c", "]">>, NL>>

(***************************************************************************)
(* C27: every rich attachment pseudo-tag that carries a url is represented *)
(* in exactly one of the two outputs for the same markup: either           *)
(* parseHtmlContent emits its icon-and-label runs or extractImageUrls      *)
(* emits a descriptor for it, never both and never neither, for every      *)
(* spelling of the content-type attribute (letter case, empty subtype)     *)
(* and whether or not the tag has a closing tag.                           *)
(***************************************************************************)
EmitsRuns == IsSubsequence(IconAndLabel(doc[1]), 1, result, 1)

EmitsDescriptor ==
    \E k \in 1..Len(images) : images[k].url = Absolute(doc[1].url[1])

C27_ExactlyOneOutput ==
    (fam = "attachment" /\ pc = "extracted" /\ doc[1].url # None) =>
        (EmitsRuns <=> ~EmitsDescriptor)

\* With its closing tag and a content type that is absent, or not image/ in either
\* case, or image/ in lower case with a subtype, the entry is in exactly one output.
LowerCaseTypesHaveOneOutput ==
    (/\ fam = "attachment"
     /\ pc = "extracted"
     /\ doc[1].url # None
     /\ Len(doc) = 2
     /\ doc[1].ct \notin {Some(ct_imageUpper), Some(s_imageSlash)})
        => (EmitsRuns <=> ~EmitsDescriptor)

(***************************************************************************)
(* C26, as stated: a successful detection replaces the palette state as    *)
(* one unit: after it, for every slot i in 0..15 the palette holds the     *)
(* response's colour for slot i when the response set it and the built-in  *)
(* fallback colour of slot i otherwise, the default foreground and         *)
(* background hold the response's values, and no read can observe a state  *)
(* in which only part of one response has been applied.                    *)
(***************************************************************************)
\* a call of detectPalette ends in this step, and it ends on the response q
EndsOn(q) ==
    /\ Len(settled') = Len(settled) + 1
    /\ settled'[Len(settled')].outcome = "result"
    /\ palette' = DetectedPalette(q)
    /\ defaultForeground' = DetectedForeground(q)
    /\ defaultBackground' = DetectedBackground(q)

\* the response q has a colour for slot i (counted from 1)
SetsSlot(q, i) ==
    /\ q.palette # None
    /\ i <= Len(q.palette[1])
    /\ q.palette[1][i] # None

SlotsOrFallback(q) ==
    [i \in 1..16 |-> IF SetsSlot(q, i) THEN q.palette[1][i][1] ELSE FALLBACK_PALETTE[i]]

C26_ReplacedAsOneUnit ==
    [][\A q \in QueryResults :
        EndsOn(q) =>
            /\ palette' = SlotsOrFallback(q)
            /\ q.defaultForeground # None => defaultForeground' = q.defaultForeground[1]
            /\ q.defaultBackground # None => defaultBackground' = q.defaultBackground[1]]_vars

(***************************************************************************)
(* C26, amended: a detection whose query resolves with a response applies  *)
(* the response in one step, field by field.  When the response's palette  *)
(* has at least 16 entries, for every slot i in 0..15 the palette holds    *)
(* the response's colour for slot i when that is not null and the built-in *)
(* fallback colour of slot i otherwise; when the response has no palette   *)
(* or one of fewer than 16 entries, the palette is left as it was.  The    *)
(* default foreground and the default background hold the response's       *)
(* values when these are non-empty strings and are left as they were       *)
(* otherwise.  No step lies between these writes, so no read observes a    *)
(* state in which only some of them have been made.                        *)
(***************************************************************************)
HasFullPalette(q) == q.palette # None /\ Len(q.palette[1]) >= 16

NonEmpty(opt) == opt # None /\ Len(opt[1]) > 0

C26_AppliedFieldByField ==
    [][\A q \in QueryResults :
        EndsOn(q) =>
            /\ palette' = IF HasFullPalette(q) THEN SlotsOrFallback(q) ELSE palette
            /\ defaultForeground' =
                IF NonEmpty(q.defaultForeground) THEN q.defaultForeground[1]
                ELSE defaultForeground
            /\ defaultBackground' =
                IF NonEmpty(q.defaultBackground) THEN q.defaultBackground[1]
                ELSE defaultBackground
            /\ seen' = seen]_vars

\* a second detection has ended on the response with the sparse palette, after a
\* first one that set every slot: the null slot holds the fallback, the empty slot
\* the empty string, the others the response's colour
C26_Witness ==
    /\ Len(settled) = 2
    /\ settled[1].outcome = "result"
    /\ settled[2].outcome = "result"
    /\ palette = [i \in 1..16 |->
                    IF i = 6 THEN FALLBACK_PALETTE[6] ELSE IF i = 7 THEN <<>> ELSE Gray]
    /\ defaultForeground = Black
    /\ defaultBackground = HalfAbove

(***************************************************************************)
(* C28: updates of the stored boardPaths map are not lost under            *)
(* interleaving: when two updates for different boards are in flight at    *)
(* the same time, the stored map reflects both after both have completed,  *)
(* in whatever order their reads and writes interleave.  Step by step: a   *)
(* write changes the entry of no board but the one its update is for.      *)
(***************************************************************************)
\* this step is the write of the update i
WriteOf(i) ==
    /\ i \in 1..Len(handlers)
    /\ boardPaths' # boardPaths
    /\ \/ handlers' = Finished(i)
       \/ /\ Len(handlers') = Len(handlers)
          /\ handlers'[i] # handlers[i]

C28_NoLostUpdate ==
    [][\A b \in Boards :
        boardPaths'[b] # boardPaths[b] =>
            \E i \in 1..Len(handlers) : handlers[i].board = b /\ WriteOf(i)]_vars

(***************************************************************************)
(* C29: extractImageUrls never drops a plain image that is not a           *)
(* duplicate: a plain image tag with a src produces a descriptor unless    *)
(* its src is relative and is the target of a rich-attachment descriptor   *)
(* extracted before it; neither an earlier plain image nor an attachment   *)
(* whose URL merely contains the src text suppresses it.                   *)
(***************************************************************************)
\* the plain image t has a relative src that is the target of an image attachment
\* of the document
IsDuplicate(t) ==
    /\ t.url[1][1] = "/"
    /\ \E j \in 1..Len(doc) :
          IsImageAttachment(doc[j]) /\ Absolute(doc[j].url[1]) = Absolute(t.url[1])

KeptPlainImage(t) == IsPlainImage(t) /\ ~IsDuplicate(t)

C29_OnlyDuplicatesAreDropped ==
    (fam = "media" /\ pc = "extracted") =>
        UrlsOf(SelectSeq(images, FromPlainImage))
            = AbsoluteUrlsOf(SelectSeq(doc, KeptPlainImage))

(***************************************************************************)
(* C30: the detail caches are read-through caches over any sequence of     *)
(* calls.  fetchCardDetails(n), and likewise fetchPRDetails(n), runs the   *)
(* external command only when n is not cached; it stores the result only   *)
(* when the fetch gave one, so a failed fetch returns null and the next    *)
(* call for n fetches again; every later call returns the stored value     *)
(* without a fetch; and after clearCardCache() (clearPRCache()) the next   *)
(* call for any n fetches again.                                           *)
(***************************************************************************)
\* the call `call` for n, on the cache `before`, left the cache `after`
IsReadThrough(before, after, n, call) ==
    /\ call.ran <=> before[n] = None
    /\ ~call.ran => (call.value = before[n] /\ after = before)
    /\ call.ran =>
          after = IF call.value # None THEN [before EXCEPT ![n] = call.value] ELSE before

\* the step is a call `fetch`(n), of the pair of `fetch` and `clear`, on the cache
\* that is `before` and becomes `after`
CacheStep(fetch, clear, before, after) ==
    LET last == returned[1]
        this == returned'[1]
    IN  /\ this.name = fetch =>
              /\ IsReadThrough(before, after, this.n, this)
              /\ (/\ returned # None
                  /\ last.name = fetch
                  /\ last.n = this.n
                  /\ last.value = None) => this.ran
              /\ (returned # None /\ last.name = clear) => this.ran
        /\ this.name = clear => \A n \in Numbers : after[n] = None
        /\ this.name \notin {fetch, clear} => after = before

C30_ReadThroughCaches ==
    [][/\ returned' # None
       /\ CacheStep("fetchCardDetails", "clearCardCache",
                    cardDetailsCache, cardDetailsCache')
       /\ CacheStep("fetchPRDetails", "clearPRCache", prDetailsCache, prDetailsCache')]_vars

\* the details of card 1 were fetched and stored when the service held v1; a later
\* call has returned them from the cache without running the command, and nothing
\* is stored for card 2
C30_Witness ==
    /\ returned = Some(CacheCall("fetchCardDetails", 1, FALSE, Some(Details(1, "v1"))))
    /\ cardDetailsCache[1] = Some(Details(1, "v1"))
    /\ cardDetailsCache[2] = None

====
